---- MODULE Spec2Model ----
(***************************************************************************)
(* Model of the retrieval core of the Policy Q&A bot:                      *)
(*   core/vectorstore.py  VectorStore (build_index, save, load, search)    *)
(*   core/retriever.py    Retriever (retrieve, _deduplicate, _text_overlap)*)
(*   core/pipeline.py     PolicyQAPipeline (__init__, initialize)          *)
(*                                                                         *)
(* Texts are sequences of words.  Embedding vectors are pairs of integers  *)
(* of Euclidean norm 10, so an inner product is a cosine similarity in     *)
(* hundredths: the score 0.25 is the integer 25.                           *)
(***************************************************************************)
EXTENDS Integers, Sequences, FiniteSets, TLC

VARIABLES
    vs,         \* the VectorStore object: _index, _chunks, _is_loaded
    indexFile,  \* db_dir/index.faiss
    metaFile,   \* db_dir/chunks.json
    retriever,  \* a Retriever over vs: _top_k, _threshold
    pl,         \* the PolicyQAPipeline object
    last,       \* the last call: operation, outcome, files written
    raw,        \* what the search structure reported to the last search
    results,    \* the (chunk, score) pairs the last search/retrieve returned
    hist,       \* history of the persisted directory (ghost)
    job,        \* the arguments of a call of the chunker
    emitted,    \* what that call returned
    served,     \* the VectorStore object the pipeline's retriever holds
    threads,    \* the request threads: where each is, and its locals
    backend     \* a backend object the threads share: _model, loads (ghost)

\* the variables of the calls that touch no object
pure == <<job, emitted>>

\* the variables of the concurrent calls
conc == <<threads, backend>>

vars == <<vs, indexFile, metaFile, retriever, pl, last, raw, results, hist,
          pure, served, conc>>

---------------------------------------------------------------------------
(* Bounds *)

MaxChunks == 3      \* longest chunk sequence handed to build_index
MaxTopK == 3        \* largest top_k handed to search directly
MaxPages == 2       \* most pages the documents directory yields
MaxSentences == 3   \* most sentences of a section text handed to the chunker
MaxResults == 4     \* most ranked results handed to generate
MaxThreads == 2     \* most request threads at work at once
MaxCalls == 3       \* most calls one request thread makes

(* Program constants *)

TOP_K == 5
SIMILARITY_THRESHOLD == 25
EMBEDDING_BATCH_SIZE == 16
CHUNK_SIZE == 500
CHUNK_OVERLAP == 100
MIN_CHUNK_SIZE == 80
NegInf == -100000

---------------------------------------------------------------------------
(* Data: texts, chunks, pages, embeddings *)

TxtWear == <<"Wear", "tear", "excluded">>
TxtWearAlways == <<"wear", "tear", "excluded", "always">>
TxtFlood == <<"flood", "damage", "covered">>

QWear == <<"wear", "covered">>
QFlood == <<"flood", "covered">>
QCapital == <<"capital", "France">>

Queries == {QWear, QFlood, QCapital}

CWear ==
    [text |-> TxtWear, doc_name |-> "Home.pdf", page |-> 12,
     section |-> <<"Exclusions">>, clause_number |-> "4.2",
     heading_path |-> <<"4.2.", "Exclusions">>, cross_references |-> <<"3.1">>,
     chunk_id |-> 7]

CWearAlways ==
    [text |-> TxtWearAlways, doc_name |-> "Home.pdf", page |-> 13,
     section |-> <<>>, clause_number |-> "",
     heading_path |-> <<>>, cross_references |-> <<>>,
     chunk_id |-> 0]

CFlood ==
    [text |-> TxtFlood, doc_name |-> "Motor.pdf", page |-> 1,
     section |-> <<"Coverage">>, clause_number |-> "1",
     heading_path |-> <<"1.", "Coverage">>, cross_references |-> <<>>,
     chunk_id |-> 3]

\* the chunks of one corpus, in the order chunking emits them
Corpus == <<CWear, CWearAlways, CFlood>>

ChunkPool == {Corpus[i] : i \in DOMAIN Corpus}

Injective(s) == \A i, j \in DOMAIN s : s[i] = s[j] => i = j

SeqsUpTo(S, n) ==
    UNION {{s \in [1..k -> S] : Injective(s)} : k \in 0..n}

\* s takes its elements from the sequence all, in the order of all
InOrderOf(s, all) ==
    \E at \in [DOMAIN s -> DOMAIN all] :
        /\ \A i \in DOMAIN s : all[at[i]] = s[i]
        /\ \A i, j \in DOMAIN s : i < j => at[i] < at[j]

\* the chunk sequences handed to build_index: up to MaxChunks chunks of the
\* corpus, in corpus order
ChunkSeqs == {s \in SeqsUpTo(ChunkPool, MaxChunks) : InOrderOf(s, Corpus)}

\* SentenceTransformer.encode(normalize_embeddings=True) on one text
Embed(text) ==
    CASE text = TxtWear -> <<10, 0>>
      [] text = TxtWearAlways -> <<8, 6>>
      [] text = TxtFlood -> <<0, 10>>
      [] text = QWear -> <<10, 0>>
      [] text = QFlood -> <<0, 10>>
      [] OTHER -> <<-6, -8>>

Dot(a, b) == a[1] * b[1] + a[2] * b[2]

Min(a, b) == IF a <= b THEN a ELSE b

\* SentenceTransformerBackend.encode: one batch after the other, stacked
RECURSIVE encode(_, _)
encode(texts, batch_size) ==
    IF texts = <<>> THEN <<>>
    ELSE LET n == Min(batch_size, Len(texts))
             batch == SubSeq(texts, 1, n)
         IN  [i \in 1..n |-> Embed(batch[i])]
                \o encode(SubSeq(texts, n + 1, Len(texts)), batch_size)

---------------------------------------------------------------------------
(* VectorStore *)

NoIndex == [some |-> FALSE, vecs |-> <<>>]

\* VectorStore.__init__
FreshStore == [index |-> NoIndex, chunks |-> <<>>, is_loaded |-> FALSE]

MissingFile == [state |-> "missing", data |-> <<>>]
PartialFile == [state |-> "partial", data |-> <<>>]

\* VectorStore.build_index; encodeOk is whether the embedding call returns
build_index(s, chunks, encodeOk) ==
    IF chunks = <<>>
    THEN [store |-> s, ret |-> "None"]
    ELSE LET s1 == [s EXCEPT !.chunks = chunks]
             texts == [i \in 1..Len(chunks) |-> chunks[i].text]
         IN  IF ~encodeOk
             THEN [store |-> s1, ret |-> "EncodeError"]
             ELSE [store |-> [s1 EXCEPT
                                !.index = [some |-> TRUE,
                                           vecs |-> encode(texts, EMBEDDING_BATCH_SIZE)],
                                !.is_loaded = TRUE],
                   ret |-> "None"]

\* the dictionary save appends to meta for one chunk
MetaOfChunk(c) ==
    [text |-> c.text, doc_name |-> c.doc_name, page |-> c.page,
     section |-> c.section, clause_number |-> c.clause_number,
     heading_path |-> c.heading_path,
     cross_references |-> c.cross_references, chunk_id |-> c.chunk_id]

SaveCuts == {"none", "index_partial", "after_index", "meta_partial"}

\* VectorStore.save; cut is where the call is interrupted, "none" if it is not
save(s, ixf, mtf, cut) ==
    IF ~s.index.some
    THEN [indexFile |-> ixf, metaFile |-> mtf, ret |-> "None", wrote |-> {}]
    ELSE LET ix == [state |-> "ok", data |-> s.index.vecs]
             mt == [state |-> "ok",
                    data |-> [i \in 1..Len(s.chunks) |-> MetaOfChunk(s.chunks[i])]]
         IN  CASE cut = "index_partial" ->
                    [indexFile |-> PartialFile, metaFile |-> mtf,
                     ret |-> "IOError", wrote |-> {"index"}]
               [] cut = "after_index" ->
                    [indexFile |-> ix, metaFile |-> mtf,
                     ret |-> "IOError", wrote |-> {"index"}]
               [] cut = "meta_partial" ->
                    [indexFile |-> ix, metaFile |-> PartialFile,
                     ret |-> "IOError", wrote |-> {"index", "meta"}]
               [] OTHER ->
                    [indexFile |-> ix, metaFile |-> mt,
                     ret |-> "None", wrote |-> {"index", "meta"}]

\* m.get(key, default)
DictGet(m, key, default) == IF key \in DOMAIN m THEN m[key] ELSE default

\* the keys load reads with m[...]: a missing one is a KeyError
RequiredKeys == {"text", "doc_name", "page"}

\* ChunkOfMeta with the position taken for chunk_id whatever the metadata says
ChunkOfMetaPositional(m, i) ==
    [text |-> m["text"], doc_name |-> m["doc_name"], page |-> m["page"],
     section |-> DictGet(m, "section", <<>>),
     clause_number |-> DictGet(m, "clause_number", ""),
     heading_path |-> DictGet(m, "heading_path", <<>>),
     cross_references |-> DictGet(m, "cross_references", <<>>),
     chunk_id |-> i]

\* the Chunk load builds from the metadata object m at 0-based position i
ChunkOfMeta(m, i) ==
    [text |-> m["text"], doc_name |-> m["doc_name"], page |-> m["page"],
     section |-> DictGet(m, "section", <<>>),
     clause_number |-> DictGet(m, "clause_number", ""),
     heading_path |-> DictGet(m, "heading_path", <<>>),
     cross_references |-> DictGet(m, "cross_references", <<>>),
     chunk_id |-> DictGet(m, "chunk_id", i)]

\* ArtifactMissing that looks at the search-structure file only
ArtifactMissingIndexOnly(ixf, mtf) == ixf.state = "missing"

\* the missing-file check that opens load
ArtifactMissing(ixf, mtf) == ixf.state = "missing" \/ mtf.state = "missing"

\* VectorStore.load
load(s, ixf, mtf) ==
    IF ArtifactMissing(ixf, mtf)
    THEN [store |-> s, ret |-> "False"]
    ELSE IF ixf.state # "ok"
    THEN [store |-> s, ret |-> "False"]
    ELSE LET s1 == [s EXCEPT !.index = [some |-> TRUE, vecs |-> ixf.data]]
         IN  IF mtf.state # "ok"
             THEN [store |-> s1, ret |-> "False"]
             ELSE IF \E i \in DOMAIN mtf.data :
                        ~(RequiredKeys \subseteq DOMAIN mtf.data[i])
             THEN [store |-> s1, ret |-> "False"]
             ELSE [store |-> [s1 EXCEPT
                                !.chunks = [i \in DOMAIN mtf.data |->
                                              ChunkOfMeta(mtf.data[i], i - 1)],
                                !.is_loaded = TRUE],
                   ret |-> "True"]

---------------------------------------------------------------------------
(* Search *)

\* one row of what IndexFlatIP.search reports: a 0-based position and a score
Hit(idx, score) == [idx |-> idx, score |-> score]

NonIncreasing(scores) ==
    \A i, j \in DOMAIN scores : i < j => scores[i] >= scores[j]

\* IndexFlatIP.search(q, k): the k best positions by inner product, best
\* first, in any order among equal scores, padded with position -1
FaissSearch(vecs, q, k) ==
    LET n == Len(vecs)
        orders == {p \in [1..n -> 1..n] :
                     /\ Injective(p)
                     /\ NonIncreasing([i \in 1..n |-> Dot(q, vecs[p[i]])])}
    IN  {[i \in 1..k |->
            IF i <= n THEN Hit(p[i] - 1, Dot(q, vecs[p[i]]))
            ELSE Hit(-1, NegInf)] : p \in orders}

\* InRange without the test for a negative position
InRangeUpperOnly(chunks, idx) == ~(idx >= Len(chunks))

\* the negation of the range test that makes search skip a position
InRange(chunks, idx) == ~(idx < 0 \/ idx >= Len(chunks))

\* Python list indexing: chunks[idx], negative idx counting from the end
PyItemOk(chunks, idx) == idx >= -Len(chunks) /\ idx < Len(chunks)

PyItem(chunks, idx) ==
    chunks[IF idx >= 0 THEN idx + 1 ELSE Len(chunks) + idx + 1]

\* NotSearchable that tests the index and not is_loaded
NotSearchableIndexOnly(s) == ~s.index.some

\* the guard that opens search
NotSearchable(s) == ~s.index.some \/ ~s.is_loaded

\* the loop of search over the reported rows
RECURSIVE collect(_, _)
collect(chunks, hits) ==
    IF hits = <<>> THEN <<>>
    ELSE LET h == Head(hits) IN
         IF InRange(chunks, h.idx)
         THEN <<[chunk |-> PyItem(chunks, h.idx), score |-> h.score]>>
                 \o collect(chunks, Tail(hits))
         ELSE collect(chunks, Tail(hits))

\* VectorStore.search, given what the search structure reports
search(s, hits) ==
    IF NotSearchable(s)
    THEN [ret |-> "list", results |-> <<>>]
    ELSE IF \E i \in DOMAIN hits :
               InRange(s.chunks, hits[i].idx) /\ ~PyItemOk(s.chunks, hits[i].idx)
    THEN [ret |-> "IndexError", results |-> <<>>]
    ELSE [ret |-> "list", results |-> collect(s.chunks, hits)]

\* the rows the search structure of s reports for q and top_k
Reported(s, q, top_k) ==
    IF NotSearchable(s) THEN {<<>>} ELSE FaissSearch(s.index.vecs, q, top_k)

---------------------------------------------------------------------------
(* Retriever *)

\* str.lower() on one word
Lower(w) ==
    CASE w = "Wear" -> "wear"
      [] w = "France" -> "france"
      [] w = "Rust" -> "rust"
      [] w = "We" -> "we"
      [] w = "Cover" -> "cover"
      [] w = "Limits" -> "limits"
      [] w = "General" -> "general"
      [] w = "Conditions" -> "conditions"
      [] w = "Section" -> "section"
      [] w = "What" -> "what"
      [] w = "How" -> "how"
      [] w = "Is" -> "is"
      [] w = "I" -> "i"
      [] w = "Coverage" -> "coverage"
      [] w \in {"EXCLUSIONS", "Exclusions"} -> "exclusions"
      [] w = "Exclusions:" -> "exclusions:"
      [] OTHER -> w

\* set(text.lower().split())
Words(text) == {Lower(text[i]) : i \in DOMAIN text}

\* OverlapAbove70 with the cut at 0.8
OverlapAbove80(text_a, text_b) ==
    LET words_a == Words(text_a)
        words_b == Words(text_b)
    IN  IF words_a = {} \/ words_b = {} THEN FALSE
        ELSE 10 * Cardinality(words_a \cap words_b)
                > 8 * Cardinality(words_a \cup words_b)

\* Retriever._text_overlap(a, b) > 0.7, the overlap being |a & b| / |a | b|
OverlapAbove70(text_a, text_b) ==
    LET words_a == Words(text_a)
        words_b == Words(text_b)
    IN  IF words_a = {} \/ words_b = {} THEN FALSE
        ELSE 10 * Cardinality(words_a \cap words_b)
                > 7 * Cardinality(words_a \cup words_b)

\* the loop of Retriever._deduplicate: kept so far, results still to visit
RECURSIVE dedup_loop(_, _)
dedup_loop(kept, rest) ==
    IF rest = <<>> THEN kept
    ELSE LET r == Head(rest)
             is_dup == \E i \in DOMAIN kept :
                          OverlapAbove70(r.chunk.text, kept[i].chunk.text)
         IN  dedup_loop(IF is_dup THEN kept ELSE Append(kept, r), Tail(rest))

\* deduplicate visiting the results from the lowest score upwards
deduplicate_keep_last(rs) ==
    LET rev(q) == [i \in DOMAIN q |-> q[Len(q) + 1 - i]]
    IN  IF Len(rs) <= 1 THEN rs ELSE rev(dedup_loop(<<>>, rev(rs)))

\* Retriever._deduplicate
deduplicate(rs) == IF Len(rs) <= 1 THEN rs ELSE dedup_loop(<<>>, rs)

\* PassesThreshold of a retriever that keeps every result
PassesThresholdAlways(score, threshold) == TRUE

\* PassesThreshold with the comparison turned round
PassesThresholdFlipped(score, threshold) == score <= threshold

\* the threshold filter of Retriever.retrieve
PassesThreshold(score, threshold) == score >= threshold

RECURSIVE threshold_filter(_, _)
threshold_filter(rs, threshold) ==
    IF rs = <<>> THEN <<>>
    ELSE IF PassesThreshold(Head(rs).score, threshold)
    THEN <<Head(rs)>> \o threshold_filter(Tail(rs), threshold)
    ELSE threshold_filter(Tail(rs), threshold)

\* Retriever.retrieve, given what the search structure reports for the query
retrieve(rt, s, hits) ==
    LET found == search(s, hits) IN
    IF found.ret # "list" THEN found
    ELSE [ret |-> "list",
          results |-> deduplicate(threshold_filter(found.results, rt.threshold))]

---------------------------------------------------------------------------
(* Chunker: a text is a sequence of words; consecutive words are one blank *)
(* apart, and the word NL is a line break                                  *)

NL == "\n"

\* len(w) of one word
Chars(w) ==
    CASE w \in {"1.", "2."} -> 2
      [] w \in {"We", "is", "do"} -> 2
      [] w \in {"not", "see", "3.1"} -> 3
      [] w \in {"Wear", "tear", "wear", "4.2.", "Rust"} -> 4
      [] w \in {"flood", "cover", "Cover", "rust."} -> 5
      [] w \in {"always", "damage", "France", "flood.", "Limits"} -> 6
      [] w \in {"covered", "capital", "General", "Section"} -> 7
      [] w \in {"excluded", "covered."} -> 8
      [] w \in {"excluded."} -> 9
      [] w \in {"EXCLUSIONS", "Exclusions", "Conditions"} -> 10
      [] w \in {"Exclusions:"} -> 11
      [] OTHER -> 5

\* len(text)
RECURSIVE CharLen(_)
CharLen(text) ==
    IF text = <<>> THEN 0
    ELSE LET w == Head(text)
             rest == Tail(text)
         IN  (IF w = NL THEN 1 ELSE Chars(w))
                + (IF rest # <<>> /\ w # NL /\ Head(rest) # NL THEN 1 ELSE 0)
                + CharLen(rest)

\* _estimate_tokens
estimate_tokens(text) == CharLen(text) \div 4

\* str.strip()
RECURSIVE Strip(_)
Strip(text) ==
    IF text = <<>> THEN <<>>
    ELSE IF Head(text) = NL THEN Strip(Tail(text))
    ELSE IF text[Len(text)] = NL THEN Strip(SubSeq(text, 1, Len(text) - 1))
    ELSE text

\* the word ends in one of . ! ?
EndsSentence(w) ==
    w \in {"1.", "2.", "4.2.", "rust.", "flood.", "covered.", "excluded."}

\* re.split(r"(?<=[.!?])\s+", text): sentences closed so far, the sentence
\* being read, the words still to read
RECURSIVE split_sentences(_, _, _)
split_sentences(done, cur, rest) ==
    IF rest = <<>> THEN Append(done, cur)
    ELSE LET w == Head(rest) IN
         IF w = NL /\ cur = <<>> /\ done # <<>>
         THEN split_sentences(done, cur, Tail(rest))
         ELSE IF EndsSentence(w) /\ Tail(rest) # <<>>
         THEN split_sentences(Append(done, Append(cur, w)), <<>>, Tail(rest))
         ELSE split_sentences(done, Append(cur, w), Tail(rest))

\* " ".join(sentences)
RECURSIVE Join(_)
Join(sentences) ==
    IF sentences = <<>> THEN <<>> ELSE Head(sentences) \o Join(Tail(sentences))

\* sum(_estimate_tokens(s) for s in sentences)
RECURSIVE SumTokens(_)
SumTokens(sentences) ==
    IF sentences = <<>> THEN 0
    ELSE estimate_tokens(Head(sentences)) + SumTokens(Tail(sentences))

\* the overlap loop of _sub_chunk_text over reversed(current_chunk): i is
\* the sentence visited, kept the sentences carried over so far
RECURSIVE overlap_loop(_, _, _, _, _)
overlap_loop(current_chunk, i, overlap_tokens, kept, chunk_overlap) ==
    IF i = 0 THEN kept
    ELSE LET tokens == overlap_tokens + estimate_tokens(current_chunk[i]) IN
         IF tokens >= chunk_overlap THEN kept
         ELSE overlap_loop(current_chunk, i - 1, tokens,
                           <<current_chunk[i]>> \o kept, chunk_overlap)

\* the test that emits a chunk flushed inside the loop of _sub_chunk_text
EmitsFlushed(chunk_text, chunks, min_chunk_size) ==
    estimate_tokens(chunk_text) >= min_chunk_size

\* EmitsLast without the test of the minimum
EmitsLastAlways(chunk_text, chunks, min_chunk_size) == TRUE

\* the test that emits the last chunk of _sub_chunk_text on its own
EmitsLast(chunk_text, chunks, min_chunk_size) ==
    estimate_tokens(chunk_text) >= min_chunk_size \/ chunks = <<>>

\* the loop of _sub_chunk_text over the sentences; st holds chunks,
\* current_chunk and current_tokens
RECURSIVE sentence_loop(_, _, _, _, _)
sentence_loop(st, sentences, chunk_size, chunk_overlap, min_chunk_size) ==
    IF sentences = <<>> THEN st
    ELSE LET sentence == Head(sentences)
             sent_tokens == estimate_tokens(sentence)
             flush == st.current_tokens + sent_tokens > chunk_size
                         /\ st.current_chunk # <<>>
             chunk_text == Join(st.current_chunk)
             carried == overlap_loop(st.current_chunk, Len(st.current_chunk),
                                     0, <<>>, chunk_overlap)
             flushed ==
                 IF ~flush THEN st
                 ELSE [chunks |->
                          IF EmitsFlushed(chunk_text, st.chunks, min_chunk_size)
                          THEN Append(st.chunks, chunk_text) ELSE st.chunks,
                       current_chunk |-> carried,
                       current_tokens |-> SumTokens(carried)]
         IN  sentence_loop(
                 [chunks |-> flushed.chunks,
                  current_chunk |-> Append(flushed.current_chunk, sentence),
                  current_tokens |-> flushed.current_tokens + sent_tokens],
                 Tail(sentences), chunk_size, chunk_overlap, min_chunk_size)

\* _sub_chunk_text up to the end of its loop
sub_chunk_loop(text, chunk_size, chunk_overlap, min_chunk_size) ==
    sentence_loop([chunks |-> <<>>, current_chunk |-> <<>>,
                   current_tokens |-> 0],
                  split_sentences(<<>>, <<>>, text),
                  chunk_size, chunk_overlap, min_chunk_size)

\* _sub_chunk_text
sub_chunk_text(text, chunk_size, chunk_overlap, min_chunk_size) ==
    IF estimate_tokens(text) <= chunk_size
    THEN (IF estimate_tokens(text) >= min_chunk_size THEN <<text>>
          ELSE IF Strip(text) # <<>> THEN <<text>> ELSE <<>>)
    ELSE LET st == sub_chunk_loop(text, chunk_size, chunk_overlap,
                                  min_chunk_size)
             chunks == st.chunks
             chunk_text == Join(st.current_chunk)
         IN  IF st.current_chunk = <<>> THEN chunks
             ELSE IF EmitsLast(chunk_text, chunks, min_chunk_size)
             THEN Append(chunks, chunk_text)
             ELSE IF chunks # <<>>
             THEN [chunks EXCEPT ![Len(chunks)] = @ \o chunk_text]
             ELSE chunks

\* text.split("\n"): lines closed so far, the line being read, the rest
RECURSIVE split_lines(_, _, _)
split_lines(done, cur, rest) ==
    IF rest = <<>> THEN Append(done, cur)
    ELSE IF Head(rest) = NL THEN split_lines(Append(done, cur), <<>>, Tail(rest))
    ELSE split_lines(done, Append(cur, Head(rest)), Tail(rest))

\* "\n".join(lines)
RECURSIVE join_lines(_)
join_lines(lines) ==
    IF lines = <<>> THEN <<>>
    ELSE IF Len(lines) = 1 THEN Head(lines)
    ELSE Head(lines) \o <<NL>> \o join_lines(Tail(lines))

\* group 1 of NUMBERED_SECTION_RE on a word: the dotted number before the
\* closing dot, "" when the word is no such number
ClauseOf(w) ==
    CASE w = "1." -> "1"
      [] w = "2." -> "2"
      [] w = "4.2." -> "4.2"
      [] OTHER -> ""

\* NUMBERED_SECTION_RE.match(stripped): a dotted number, a dot, white space
NumberedMatch(line) == Len(line) >= 2 /\ ClauseOf(line[1]) # ""

\* ALLCAPS_HEADING_RE.match(stripped)
AllCapsMatch(line) ==
    line # <<>> /\ \A i \in DOMAIN line : line[i] \in {"EXCLUSIONS"}

\* SECTION_KEYWORDS, each keyword as its words
SECTION_KEYWORDS ==
    {<<"exclusions">>, <<"conditions">>, <<"general", "conditions">>}

\* stripped.lower().rstrip(":")
LowerNoColon(line) ==
    [i \in DOMAIN line |->
        IF i = Len(line) /\ Lower(line[i]) = "exclusions:" THEN "exclusions"
        ELSE Lower(line[i])]

\* _detect_section_label: the heading, <<>> for None
detect_section_label(line) ==
    IF line = <<>> THEN <<>>
    ELSE IF NumberedMatch(line) THEN line
    ELSE IF AllCapsMatch(line) THEN line
    ELSE IF LowerNoColon(line) \in SECTION_KEYWORDS THEN line
    ELSE <<>>

\* the loop of _split_into_sections over the lines
RECURSIVE section_loop(_, _, _)
section_loop(sections, current_section, lines) ==
    IF lines = <<>>
    THEN (IF current_section.lines # <<>> THEN Append(sections, current_section)
          ELSE sections)
    ELSE LET line == Head(lines)
             heading == detect_section_label(line)
         IN  IF heading # <<>>
             THEN section_loop(
                      IF current_section.lines # <<>>
                      THEN Append(sections, current_section) ELSE sections,
                      [heading |-> heading,
                       clause |-> IF NumberedMatch(line) THEN ClauseOf(line[1])
                                  ELSE "",
                       lines |-> <<line>>],
                      Tail(lines))
             ELSE section_loop(sections,
                               [current_section EXCEPT !.lines = Append(@, line)],
                               Tail(lines))

\* _split_into_sections
split_into_sections(text) ==
    section_loop(<<>>, [heading |-> <<>>, clause |-> "", lines |-> <<>>],
                 split_lines(<<>>, <<>>, text))

---------------------------------------------------------------------------
(* Citations: a string built from parts is the sequence of its parts, which *)
(* " ".join puts one blank apart                                            *)

\* one part of a citation: the marker written around body
Part(mark, body) == [mark |-> mark, body |-> body]

\* HasClause that is always true
HasClauseAlways(c) == TRUE

\* the truth value of self.clause_number
HasClause(c) == c.clause_number # ""

\* Chunk.citation_string
citation_string(c) ==
    <<Part("", c.doc_name)>>
        \o (IF HasClause(c) THEN <<Part("§", c.clause_number)>> ELSE <<>>)
        \o (IF c.section # <<>> THEN <<Part("()", c.section)>>
            ELSE IF c.heading_path # <<>> THEN <<Part("\"\"", c.heading_path)>>
            ELSE <<>>)
        \o <<Part("p.", c.page)>>

---------------------------------------------------------------------------
(* Answer composer: MockLLMBackend *)

\* the low-confidence cut of generate, 0.25 in hundredths
LOW_CONFIDENCE == 25

\* the follow-ups _generate_follow_ups aims at, and the shared keywords
\* that make it skip a generic one
FOLLOW_UPS == 3
SHARED_KEYWORDS == 2

\* the stop words of _get_keywords that occur in the texts of the model
stop_words == {"is", "the", "a", "and", "of", "to", "are", "do", "what",
               "how", "my", "under", "this", "from"}

\* re.findall(r"\b\w+\b", w.lower()) on one word
WordTokens(w) ==
    CASE w = "4.2." -> {"4", "2"}
      [] w = "1." -> {"1"}
      [] w = "2." -> {"2"}
      [] w = "3.1" -> {"3", "1"}
      [] w = "policy's" -> {"policy", "s"}
      [] w = "couldn't" -> {"couldn", "t"}
      [] w = "rust." -> {"rust"}
      [] w = "flood." -> {"flood"}
      [] w = "covered." -> {"covered"}
      [] w = "excluded." -> {"excluded"}
      [] w = "Exclusions:" -> {"exclusions"}
      [] w = "coverage?" -> {"coverage"}
      [] w = "process?" -> {"process"}
      [] w = "conditions?" -> {"conditions"}
      [] w = "calculated?" -> {"calculated"}
      [] w = "available?" -> {"available"}
      [] w = "policy?" -> {"policy"}
      [] w \in {NL, ">"} -> {}
      [] OTHER -> {Lower(w)}

\* _get_keywords
get_keywords(text) ==
    UNION {WordTokens(text[i]) : i \in DOMAIN text} \ stop_words

\* _clean_pdf_text: a line break that stands alone becomes a blank, which
\* the words of a text have between them anyway
clean_pdf_text(text) ==
    LET alone(i) == /\ text[i] = NL
                    /\ (i = 1 \/ text[i - 1] # NL)
                    /\ (i = Len(text) \/ text[i + 1] # NL)
        keep == {i \in DOMAIN text : ~alone(i)}
        nth(k) == CHOOSE i \in keep : Cardinality({j \in keep : j < i}) = k - 1
    IN  Strip([k \in 1..Cardinality(keep) |-> text[nth(k)]])

\* the word starts with a capital letter
StartsUpper(w) ==
    w \in {"Rust", "We", "Wear", "Cover", "Limits", "General", "Conditions",
           "Section", "EXCLUSIONS", "Exclusions", "Exclusions:", "France"}

\* re.split(r"(?<=[.!?])\s+(?=[A-Z])", text)
RECURSIVE split_passages(_, _, _)
split_passages(done, cur, rest) ==
    IF rest = <<>> THEN Append(done, cur)
    ELSE LET w == Head(rest)
             after == SelectSeq(Tail(rest), LAMBDA x : x # NL)
         IN  IF w = NL /\ cur = <<>> /\ done # <<>>
             THEN split_passages(done, cur, Tail(rest))
             ELSE IF EndsSentence(w) /\ after # <<>> /\ StartsUpper(Head(after))
             THEN split_passages(Append(done, Append(cur, w)), <<>>, Tail(rest))
             ELSE split_passages(done, Append(cur, w), Tail(rest))

\* the sentences _extract_best_passage scores: at least 15 characters long
MIN_SENTENCE_CHARS == 15
MAX_PASSAGE_CHARS == 400
MAX_PASSAGE_SENTENCES == 3

\* scored.sort(key=overlap, reverse=True): a stable sort, so sentences of
\* equal overlap keep their order
RECURSIVE sort_by_overlap(_, _)
sort_by_overlap(sents, keywords) ==
    IF sents = <<>> THEN <<>>
    ELSE LET overlap(x) == Cardinality(keywords \cap get_keywords(x))
             best == CHOOSE i \in DOMAIN sents :
                        /\ \A j \in DOMAIN sents : overlap(sents[j]) <= overlap(sents[i])
                        /\ \A j \in 1..(i - 1) : overlap(sents[j]) < overlap(sents[i])
         IN  <<sents[best]>>
                \o sort_by_overlap(SubSeq(sents, 1, best - 1)
                                      \o SubSeq(sents, best + 1, Len(sents)),
                                   keywords)

\* the loop of _extract_best_passage that takes the top sentences
RECURSIVE take_sentences(_, _, _)
take_sentences(result, total_len, scored) ==
    IF scored = <<>> THEN result
    ELSE LET sent == Head(scored) IN
         IF total_len + CharLen(sent) > MAX_PASSAGE_CHARS THEN result
         ELSE IF Len(result) + 1 >= MAX_PASSAGE_SENTENCES
         THEN Append(result, sent)
         ELSE take_sentences(Append(result, sent), total_len + CharLen(sent),
                             Tail(scored))

\* _extract_best_passage
extract_best_passage(text, question_lower) ==
    LET sentences == split_passages(<<>>, <<>>, text)
        scored == SelectSeq(sentences,
                            LAMBDA x : ~(CharLen(x) < MIN_SENTENCE_CHARS))
    IN  IF scored = <<>> THEN <<>>
        ELSE Join(take_sentences(<<>>, 0,
                      sort_by_overlap(scored, get_keywords(question_lower))))

\* the fixed sentences of generate and _no_answer_response
ExplainNoContext ==
    <<"I", "couldn't", "find", "anything", "related", "to", "that", "in",
      "the", "loaded", "policy", "documents.">>
ExplainLowConfidence ==
    <<"I", "couldn't", "find", "a", "direct", "answer", "to", "that,", "but",
      "here", "are", "some", "related", "sections", "that", "might", "help.">>
ExplainNoPassage ==
    <<"While", "related", "sections", "were", "found,", "they", "do", "not",
      "directly", "answer", "this", "specific", "question.">>
TryRephrasing ==
    <<"Try", "rephrasing", "your", "question", "or", "asking", "about", "a",
      "specific", "policy", "topic", "like", "coverage,", "exclusions,", "or",
      "claims.">>
RelatedHeader == <<"**Related", "sections", "I", "found:**">>
GroundedHeader == <<"Based", "on", "the", "policy", "documents:">>

\* the most results _no_answer_response lists, and the characters of a
\* chunk it shows
RELATED_LIMIT == 3
SNIPPET_CHARS == 150

\* clean(text)[:150].strip(), "..." added when the text is longer: the whole
\* words within the cut, the number of characters kept, and the dots
snippet_of(text) ==
    LET cleaned == clean_pdf_text(text)
        whole == {k \in 0..Len(cleaned) :
                     CharLen(SubSeq(cleaned, 1, k)) <= SNIPPET_CHARS}
        last_whole == CHOOSE k \in whole : \A j \in whole : j <= k
        prefix == SubSeq(cleaned, 1, last_whole)
    IN  [words |-> prefix,
         chars |-> IF CharLen(cleaned) <= SNIPPET_CHARS THEN CharLen(cleaned)
                   ELSE IF CharLen(prefix) = SNIPPET_CHARS - 1
                   THEN SNIPPET_CHARS - 1 ELSE SNIPPET_CHARS,
         dots |-> CharLen(text) > SNIPPET_CHARS]

\* the loop of _no_answer_response over context_chunks[:3]
RECURSIVE related_loop(_, _)
related_loop(listed, rest) ==
    IF rest = <<>> THEN listed
    ELSE LET cite == citation_string(Head(rest).chunk) IN
         IF \E i \in DOMAIN listed : listed[i].cite = cite
         THEN related_loop(listed, Tail(rest))
         ELSE related_loop(
                  Append(listed, [cite |-> cite,
                                  snippet |-> snippet_of(Head(rest).chunk.text)]),
                  Tail(rest))

\* _format_citations: the citations after "Sources: ", <<>> for ""
RECURSIVE format_citations(_, _)
format_citations(cites, chunks) ==
    IF chunks = <<>> THEN cites
    ELSE LET cite == citation_string(Head(chunks).chunk) IN
         format_citations(IF \E i \in DOMAIN cites : cites[i] = cite
                          THEN cites ELSE Append(cites, cite),
                          Tail(chunks))

\* _no_answer_response
no_answer_response(context_chunks, explanation) ==
    [kind |-> "no_answer",
     header |-> explanation,
     blocks |-> <<>>,
     related |-> related_loop(<<>>, SubSeq(context_chunks, 1,
                                  Min(RELATED_LIMIT, Len(context_chunks)))),
     sources |-> format_citations(<<>>, context_chunks),
     hint |-> IF context_chunks # <<>> THEN <<>> ELSE TryRephrasing]

\* the grouping key of _build_structured_answer
GroupKey(chunk) ==
    <<chunk.doc_name,
      IF chunk.section # <<>> THEN chunk.section
      ELSE IF chunk.heading_path # <<>> THEN chunk.heading_path
      ELSE <<"General">>>>

\* the keys of grouped, in the order of their first chunk
RECURSIVE group_keys(_, _)
group_keys(keys, chunks) ==
    IF chunks = <<>> THEN keys
    ELSE LET key == GroupKey(Head(chunks).chunk) IN
         group_keys(IF \E i \in DOMAIN keys : keys[i] = key
                    THEN keys ELSE Append(keys, key),
                    Tail(chunks))

\* combined_text of one group, stripped
RECURSIVE combined_text(_, _)
combined_text(chunks, question_lower) ==
    IF chunks = <<>> THEN <<>>
    ELSE extract_best_passage(clean_pdf_text(Head(chunks).chunk.text),
                              question_lower)
            \o combined_text(Tail(chunks), question_lower)

\* the labeled passage blocks _build_structured_answer appends
RECURSIVE passage_blocks(_, _, _)
passage_blocks(keys, context_chunks, question_lower) ==
    IF keys = <<>> THEN <<>>
    ELSE LET key == Head(keys)
             chunks == SelectSeq(context_chunks,
                                 LAMBDA r : GroupKey(r.chunk) = key)
             text == combined_text(chunks, question_lower)
             later == passage_blocks(Tail(keys), context_chunks, question_lower)
         IN  IF text = <<>> THEN later
             ELSE <<[label |-> key[2],
                     clause |-> chunks[1].chunk.clause_number,
                     doc_name |-> key[1],
                     page |-> chunks[1].chunk.page,
                     text |-> text]>> \o later

\* NoBlocks that is never true
NoBlocksNever(blocks) == FALSE

\* len(answer_parts) <= 1: nothing but the header was appended
NoBlocks(blocks) == blocks = <<>>

\* _build_structured_answer
build_structured_answer(question_lower, context_chunks) ==
    LET blocks == passage_blocks(group_keys(<<>>, context_chunks),
                                 context_chunks, question_lower)
    IN  IF NoBlocks(blocks)
        THEN no_answer_response(context_chunks, ExplainNoPassage)
        ELSE [kind |-> "grounded",
              header |-> GroundedHeader,
              blocks |-> blocks,
              related |-> <<>>,
              sources |-> format_citations(<<>>, context_chunks),
              hint |-> <<>>]

\* one follow-up suggestion: a topic template filled with a topic (key is
\* the key of the template), or a fixed sentence (key is "")
Suggestion(key, text) == [key |-> key, text |-> text]

\* the keys of topic_templates, in the order of the dictionary
TopicKeys ==
    <<"exclusion", "cover", "definition", "claim", "condition", "excess",
      "limit", "waiting">>

\* the topic keys that are part of a lower-case word
KeysInWord(w) ==
    CASE w \in {"exclusions", "exclusions:"} -> {"exclusion"}
      [] w \in {"cover", "coverage", "covered", "covers"} -> {"cover"}
      [] w = "conditions" -> {"condition"}
      [] w = "limits" -> {"limit"}
      [] w = "claims" -> {"claim"}
      [] OTHER -> {}

\* topic_key in section
TopicKeyIn(key, section) ==
    \E i \in DOMAIN section : key \in KeysInWord(Lower(section[i]))

\* a in b for two strings, on whole words
ContainsWords(b, a) ==
    \E at \in 0..(Len(b) - Len(a)) :
        \A i \in DOMAIN a : Lower(b[at + i]) = Lower(a[i])

\* heading.split(">")[-1].strip()
RECURSIVE last_segment(_)
last_segment(heading) ==
    IF \E i \in DOMAIN heading : heading[i] = ">"
    THEN last_segment(Tail(heading))
    ELSE heading

\* _extract_topic, <<>> for ""
extract_topic(chunk, question_lower) ==
    LET heading == IF chunk.heading_path # <<>> THEN chunk.heading_path
                   ELSE chunk.section
        topic == last_segment(heading)
    IN  IF ~ContainsWords(question_lower, topic) /\ CharLen(topic) > 2
        THEN topic ELSE <<>>

\* the first loop of _generate_follow_ups; st holds follow_ups and
\* seen_topics, the keys and the topics seen kept apart
RECURSIVE topic_loop(_, _, _)
topic_loop(st, context_chunks, question_lower) ==
    IF context_chunks = <<>> THEN st
    ELSE LET chunk == Head(context_chunks).chunk
             section == IF chunk.section # <<>> THEN chunk.section
                        ELSE chunk.heading_path
             hits == {k \in DOMAIN TopicKeys :
                         /\ TopicKeyIn(TopicKeys[k], section)
                         /\ TopicKeys[k] \notin st.seen_keys}
             key == TopicKeys[CHOOSE k \in hits : \A j \in hits : k <= j]
             topic == extract_topic(chunk, question_lower)
             st1 == IF hits # {} /\ topic # <<>>
                       /\ topic \notin st.seen_topics
                       /\ \A k \in st.seen_keys : topic # <<k>>
                    THEN [follow_ups |-> Append(st.follow_ups,
                                                Suggestion(key, topic)),
                          seen_keys |-> st.seen_keys \cup {key},
                          seen_topics |-> st.seen_topics \cup {topic}]
                    ELSE st
         IN  IF Len(st1.follow_ups) >= FOLLOW_UPS THEN st1
             ELSE topic_loop(st1, Tail(context_chunks), question_lower)

\* generic_follow_ups
generic_follow_ups ==
    <<<<"What", "items", "are", "excluded", "from", "coverage?">>,
      <<"What", "is", "the", "claims", "process?">>,
      <<"What", "are", "the", "policy's", "general", "conditions?">>,
      <<"How", "is", "the", "excess", "calculated?">>,
      <<"What", "additional", "optional", "covers", "are", "available?">>,
      <<"What", "are", "my", "obligations", "under", "this", "policy?">>>>

\* the second loop of _generate_follow_ups
RECURSIVE generic_loop(_, _, _)
generic_loop(follow_ups, generic, question_lower) ==
    IF generic = <<>> \/ Len(follow_ups) >= FOLLOW_UPS THEN follow_ups
    ELSE LET q == Head(generic)
             shared == get_keywords(q) \cap get_keywords(question_lower)
         IN  generic_loop(IF Cardinality(shared) < SHARED_KEYWORDS
                          THEN Append(follow_ups, Suggestion("", q))
                          ELSE follow_ups,
                          Tail(generic), question_lower)

\* _generate_follow_ups
generate_follow_ups(context_chunks, question_lower) ==
    LET st == topic_loop([follow_ups |-> <<>>, seen_keys |-> {},
                          seen_topics |-> {}],
                         context_chunks, question_lower)
        all == generic_loop(st.follow_ups, generic_follow_ups, question_lower)
    IN  SubSeq(all, 1, Min(FOLLOW_UPS, Len(all)))

\* the first three generic follow-ups in the place of the fixed ones
NoContextFollowUpsGeneric ==
    [i \in 1..FOLLOW_UPS |-> Suggestion("", generic_follow_ups[i])]

\* the follow_ups of generate for no context
NoContextFollowUps ==
    <<Suggestion("", <<"What", "does", "this", "policy", "cover?">>),
      Suggestion("", <<"What", "are", "the", "general", "exclusions?">>),
      Suggestion("", <<"How", "do", "I", "make", "a", "claim?">>)>>

\* max(score for _, score in context_chunks)
BestScore(context_chunks) ==
    CHOOSE b \in {context_chunks[i].score : i \in DOMAIN context_chunks} :
        \A i \in DOMAIN context_chunks : context_chunks[i].score <= b

\* IsLowConfidence with the cut at 0
IsLowConfidenceNever(best_score) == best_score < 0

\* best_score < 0.25
IsLowConfidence(best_score) == best_score < LOW_CONFIDENCE

\* MockLLMBackend.generate; question is what _extract_question finds in the
\* prompt (the questions of the model are one line, and the contexts hold
\* no "QUESTION:")
generate(question, context_chunks) ==
    IF context_chunks = <<>>
    THEN [answer |-> no_answer_response(<<>>, ExplainNoContext),
          follow_ups |-> NoContextFollowUps]
    ELSE IF IsLowConfidence(BestScore(context_chunks))
    THEN [answer |-> no_answer_response(context_chunks, ExplainLowConfidence),
          follow_ups |-> generate_follow_ups(context_chunks, question)]
    ELSE [answer |-> build_structured_answer(question, context_chunks),
          follow_ups |-> generate_follow_ups(context_chunks, question)]

\* the words a citation is written with: the page is written after "p."
RECURSIVE cite_words(_)
cite_words(cite) ==
    IF cite = <<>> THEN <<>>
    ELSE LET part == Head(cite) IN
         (CASE part.mark = "" -> <<part.body>>
            [] part.mark = "§" -> <<"§" \o part.body>>
            [] part.mark = "p." -> <<"p." \o ToString(part.body)>>
            [] OTHER -> part.body)
            \o cite_words(Tail(cite))

\* the lines "- **cite**: snippet" of _no_answer_response, each after a
\* line break
RECURSIVE related_lines(_)
related_lines(related) ==
    IF related = <<>> THEN <<>>
    ELSE LET item == Head(related) IN
         <<NL, "-">> \o cite_words(item.cite) \o <<":">>
            \o item.snippet.words
            \o (IF item.snippet.dots THEN <<"...">> ELSE <<>>)
            \o related_lines(Tail(related))

\* "Sources: " + "; ".join(cites)
RECURSIVE sources_line(_)
sources_line(cites) ==
    IF cites = <<>> THEN <<>>
    ELSE cite_words(Head(cites))
            \o (IF Len(cites) > 1 THEN <<";">> ELSE <<>>)
            \o sources_line(Tail(cites))

\* the two lines of each passage block of _build_structured_answer (the
\* long dash is written "--")
RECURSIVE block_lines(_)
block_lines(blocks) ==
    IF blocks = <<>> THEN <<>>
    ELSE LET block == Head(blocks) IN
         block.label
            \o (IF block.clause # "" THEN <<"§" \o block.clause>> ELSE <<>>)
            \o <<"--", block.doc_name, "p." \o ToString(block.page)>>
            \o <<NL, ">">> \o block.text \o <<NL, NL>>
            \o block_lines(Tail(blocks))

\* "\n".join(parts): the words of the answer string, the marks of
\* punctuation and emphasis written around citations left out
answer_text(a) ==
    IF a.kind = "grounded"
    THEN a.header \o <<NL, NL>> \o block_lines(a.blocks)
            \o <<NL, "Sources:">> \o sources_line(a.sources)
    ELSE IF a.sources # <<>>
    THEN a.header \o <<NL, NL>> \o RelatedHeader \o related_lines(a.related)
            \o <<NL, NL, "Sources:">> \o sources_line(a.sources)
    ELSE a.header \o <<NL, NL>> \o a.hint

---------------------------------------------------------------------------
(* PolicyQAPipeline *)

PWear == [doc_name |-> "Home.pdf", page_num |-> 12, text |-> TxtWear]
PWearAlways == [doc_name |-> "Home.pdf", page_num |-> 13, text |-> TxtWearAlways]
PFlood == [doc_name |-> "Motor.pdf", page_num |-> 1, text |-> TxtFlood]

Documents == <<PWear, PWearAlways, PFlood>>

\* what load_all_documents can return: nothing, or a run of pages in file
\* name and page order
PageSeqs ==
    {SubSeq(Documents, i, j) : i \in 1..Len(Documents), j \in 0..Len(Documents)}
        \cap SeqsUpTo({PWear, PWearAlways, PFlood}, MaxPages)

\* len(clause.split(".")) if clause else 1
Depth(clause) == IF clause \in {"4.2", "3.1"} THEN 2 ELSE 1

\* StackTooDeep with a test that never asks for a pop
StackTooDeepNever(stack, depth) == FALSE

\* the test of the loop that trims the heading stack
StackTooDeep(stack, depth) == Len(stack) >= depth

\* while len(stack) >= depth: stack.pop() if stack else None
RECURSIVE trim_loop(_, _)
trim_loop(stack, depth) ==
    IF StackTooDeep(stack, depth)
    THEN trim_loop(IF stack # <<>> THEN SubSeq(stack, 1, Len(stack) - 1)
                   ELSE stack, depth)
    ELSE stack

\* the heading stack of a document after chunk_pages met heading
push_heading(stack, heading, clause) ==
    Append(trim_loop(stack, Depth(clause)), heading)

\* " > ".join(stack)
RECURSIVE join_path(_)
join_path(stack) ==
    IF stack = <<>> THEN <<>>
    ELSE IF Len(stack) = 1 THEN Head(stack)
    ELSE Head(stack) \o <<">">> \o join_path(Tail(stack))

\* kw in heading.lower(), on the words of both: the last word of kw may be
\* followed by a colon in the heading
KeywordIn(kw, heading) ==
    \E at \in 0..(Len(heading) - Len(kw)) :
        \A i \in DOMAIN kw :
            \/ Lower(heading[at + i]) = kw[i]
            \/ i = Len(kw) /\ kw[i] = "exclusions"
                  /\ Lower(heading[at + i]) = "exclusions:"

\* str.title() on a keyword
Title(kw) ==
    [i \in DOMAIN kw |->
        CASE kw[i] = "exclusions" -> "Exclusions"
          [] kw[i] = "conditions" -> "Conditions"
          [] kw[i] = "general" -> "General"
          [] kw[i] = "limits" -> "Limits"
          [] OTHER -> kw[i]]

\* the section label loop of chunk_pages: SECTION_KEYWORDS visited in the
\* order kw_order, the heading itself when no keyword is in it (the headings
\* of the model are shorter than the 60 characters kept)
RECURSIVE section_label(_, _)
section_label(heading, kw_order) ==
    IF heading = <<>> THEN <<>>
    ELSE IF kw_order = <<>> THEN heading
    ELSE IF KeywordIn(Head(kw_order), heading) THEN Title(Head(kw_order))
    ELSE section_label(heading, Tail(kw_order))

\* _find_cross_references on the words of a text: "see Section 3.1"
RECURSIVE cross_refs_of(_)
cross_refs_of(ws) ==
    IF Len(ws) < 3 THEN <<>>
    ELSE IF Lower(ws[1]) = "see" /\ Lower(ws[2]) = "section" /\ ws[3] = "3.1"
    THEN <<"3.1">> \o cross_refs_of(SubSeq(ws, 4, Len(ws)))
    ELSE cross_refs_of(Tail(ws))

find_cross_references(text) == cross_refs_of(SelectSeq(text, LAMBDA w : w # NL))

\* NextChunkId that never counts
NextChunkIdStuck(chunk_id, n) == chunk_id

\* chunk_id after n chunks were appended, each followed by chunk_id += 1
NextChunkId(chunk_id, n) == chunk_id + n

\* the body of the loop of chunk_pages over the sections of a page; st
\* holds all_chunks, chunk_id and heading_stack
chunk_section(st, page, sec, chunk_size, chunk_overlap, min_chunk_size, kw_order) ==
    LET section_text == Strip(join_lines(sec.lines))
        stack == IF sec.heading # <<>>
                 THEN push_heading(st.heading_stack[page.doc_name],
                                   sec.heading, sec.clause)
                 ELSE st.heading_stack[page.doc_name]
        sub_chunks == sub_chunk_text(section_text, chunk_size, chunk_overlap,
                                     min_chunk_size)
    IN  IF section_text = <<>> THEN st
        ELSE [all_chunks |->
                 st.all_chunks \o
                 [k \in 1..Len(sub_chunks) |->
                     [text |-> sub_chunks[k],
                      doc_name |-> page.doc_name,
                      page |-> page.page_num,
                      section |-> section_label(sec.heading, kw_order),
                      clause_number |-> sec.clause,
                      heading_path |-> join_path(stack),
                      cross_references |-> find_cross_references(section_text),
                      chunk_id |-> st.chunk_id + k - 1]],
              chunk_id |-> NextChunkId(st.chunk_id, Len(sub_chunks)),
              heading_stack |->
                 [st.heading_stack EXCEPT ![page.doc_name] = stack]]

RECURSIVE chunk_sections(_, _, _, _, _, _, _)
chunk_sections(st, page, sections, chunk_size, chunk_overlap, min_chunk_size, kw_order) ==
    IF sections = <<>> THEN st
    ELSE chunk_sections(
             chunk_section(st, page, Head(sections), chunk_size,
                           chunk_overlap, min_chunk_size, kw_order),
             page, Tail(sections), chunk_size, chunk_overlap, min_chunk_size,
             kw_order)

\* the loop of chunk_pages over the pages
RECURSIVE page_loop(_, _, _, _, _, _)
page_loop(st, pages, chunk_size, chunk_overlap, min_chunk_size, kw_order) ==
    IF pages = <<>> THEN st
    ELSE page_loop(
             chunk_sections(st, Head(pages),
                            split_into_sections(Head(pages).text),
                            chunk_size, chunk_overlap, min_chunk_size,
                            kw_order),
             Tail(pages), chunk_size, chunk_overlap, min_chunk_size, kw_order)

\* all_chunks, chunk_id and heading_stack before the first page; a document
\* met for the first time gets an empty stack
new_chunk_state(pages) ==
    [all_chunks |-> <<>>, chunk_id |-> 0,
     heading_stack |->
        [d \in {pages[i].doc_name : i \in DOMAIN pages} |-> <<>>]]

\* chunk_pages; kw_order is the order in which this process iterates over
\* the set SECTION_KEYWORDS
chunk_pages(pages, chunk_size, chunk_overlap, min_chunk_size, kw_order) ==
    page_loop(new_chunk_state(pages), pages, chunk_size, chunk_overlap,
              min_chunk_size, kw_order).all_chunks

\* the iteration orders of SECTION_KEYWORDS
KeywordOrders ==
    {o \in [1..Cardinality(SECTION_KEYWORDS) -> SECTION_KEYWORDS] : Injective(o)}

\* the order of one run of the pipeline
KeywordOrder == CHOOSE o \in KeywordOrders : TRUE

\* the keys of the backends dictionary of get_llm_backend
Backends == {"mock", "transformers", "openai"}

BackendNames == {"mock", "bogus"}

\* PolicyQAPipeline.__init__
NewPipelineObject(name) ==
    [llm_backend_name |-> name, embedding_backend |-> FALSE,
     vector_store |-> FALSE, retriever |-> FALSE, llm |-> "None",
     is_initialized |-> FALSE, doc_count |-> 0, chunk_count |-> 0]

\* VectorStore.doc_names, as the number of names
DocCount(chunks) == Cardinality({chunks[i].doc_name : i \in DOMAIN chunks})

\* UseCached that calls load and ignores what it returns
UseCachedUnchecked(force_rebuild, loaded) == ~force_rebuild

\* the test of initialize that takes the cached index
UseCached(force_rebuild, loaded) == ~force_rebuild /\ loaded = "True"

\* get_llm_backend: the backend of that name, or the error raised
get_llm_backend(backend_name) ==
    IF backend_name \notin Backends THEN "ValueError" ELSE backend_name

\* finish_initialize that sets is_initialized before the answer backend
finish_initialize_flag_first(p, s, ixf, mtf, wrote) ==
    LET p1 == [p EXCEPT !.retriever = TRUE, !.is_initialized = TRUE] IN
    IF get_llm_backend(p.llm_backend_name) = "ValueError"
    THEN [pl |-> p1, store |-> s, indexFile |-> ixf, metaFile |-> mtf,
          ret |-> "ValueError", wrote |-> wrote]
    ELSE [pl |-> [p1 EXCEPT !.llm = p.llm_backend_name],
          store |-> s, indexFile |-> ixf, metaFile |-> mtf,
          ret |-> "None", wrote |-> wrote]

\* the end of initialize: retriever, answer backend, is_initialized
finish_initialize(p, s, ixf, mtf, wrote) ==
    LET p1 == [p EXCEPT !.retriever = TRUE] IN
    IF get_llm_backend(p.llm_backend_name) = "ValueError"
    THEN [pl |-> p1, store |-> s, indexFile |-> ixf, metaFile |-> mtf,
          ret |-> "ValueError", wrote |-> wrote]
    ELSE [pl |-> [p1 EXCEPT !.llm = p.llm_backend_name, !.is_initialized = TRUE],
          store |-> s, indexFile |-> ixf, metaFile |-> mtf,
          ret |-> "None", wrote |-> wrote]

\* chunk_pages as initialize calls it, for each page sequence the documents
\* directory can yield
ConfiguredChunks ==
    [pages \in PageSeqs |->
        chunk_pages(pages, CHUNK_SIZE, CHUNK_OVERLAP, MIN_CHUNK_SIZE,
                    KeywordOrder)]

\* initialize from the save on: sv is what save returned
after_save(p, s, sv) ==
    IF sv.ret # "None"
    THEN [pl |-> p, store |-> s, indexFile |-> sv.indexFile,
          metaFile |-> sv.metaFile, ret |-> sv.ret, wrote |-> sv.wrote]
    ELSE finish_initialize(p, s, sv.indexFile, sv.metaFile, sv.wrote)

\* initialize from the embedding on: b is what build_index returned
after_build_index(p, b, ixf, mtf, cut) ==
    IF b.ret # "None"
    THEN [pl |-> p, store |-> b.store, indexFile |-> ixf, metaFile |-> mtf,
          ret |-> b.ret, wrote |-> {}]
    ELSE after_save(p, b.store, save(b.store, ixf, mtf, cut))

\* initialize from the chunking on: chunks is what chunk_pages returned
after_chunk_pages(p, s, ixf, mtf, pages, chunks, encodeOk, cut) ==
    after_build_index(
        [p EXCEPT !.doc_count =
                      Cardinality({pages[i].doc_name : i \in DOMAIN pages}),
                  !.chunk_count = Len(chunks)],
        build_index(s, chunks, encodeOk), ixf, mtf, cut)

\* initialize from the cached index on: ld is what load returned, or that
\* it was skipped
after_load(p, ld, ixf, mtf, force_rebuild, pages, encodeOk, cut) ==
    IF UseCached(force_rebuild, ld.ret)
    THEN finish_initialize(
             [p EXCEPT !.chunk_count = Len(ld.store.chunks),
                       !.doc_count = DocCount(ld.store.chunks)],
             ld.store, ixf, mtf, {})
    ELSE IF pages = <<>>
    THEN [pl |-> p, store |-> ld.store, indexFile |-> ixf,
          metaFile |-> mtf, ret |-> "RuntimeError", wrote |-> {}]
    ELSE after_chunk_pages(p, ld.store, ixf, mtf, pages,
                           ConfiguredChunks[pages], encodeOk, cut)

\* PolicyQAPipeline.initialize; pages is what load_all_documents returns
initialize(p, ixf, mtf, force_rebuild, pages, encodeOk, cut) ==
    after_load([p EXCEPT !.embedding_backend = TRUE, !.vector_store = TRUE],
               IF force_rebuild
               THEN [store |-> FreshStore, ret |-> "skipped"]
               ELSE load(FreshStore, ixf, mtf),
               ixf, mtf, force_rebuild, pages, encodeOk, cut)

\* the patterns of _detect_conversational, as words
GREETING_PATTERNS ==
    {<<"hi">>, <<"hello">>, <<"hey">>, <<"good", "morning">>,
     <<"good", "afternoon">>, <<"good", "evening">>, <<"howdy">>, <<"hola">>,
     <<"sup">>, <<"yo">>, <<"hii">>, <<"hiii">>, <<"hihi">>}
IDENTITY_PATTERNS ==
    {<<"who", "are", "you">>, <<"who", "are", "u">>, <<"what", "are", "you">>,
     <<"what", "are", "u">>, <<"what", "is", "this">>,
     <<"what", "do", "you", "do">>, <<"introduce", "yourself">>,
     <<"what", "can", "you", "do">>, <<"what", "can", "u", "do">>}
THANKS_PATTERNS ==
    {<<"thanks">>, <<"thank", "you">>, <<"thank", "u">>, <<"thx">>, <<"ty">>,
     <<"cheers">>}
HELP_PATTERNS ==
    {<<"help">>, <<"help", "me">>, <<"what", "can", "i", "ask">>,
     <<"how", "to", "use">>}

\* w.rstrip("?!.") on the last word of a question
RStrip(w) ==
    CASE w = "hello!" -> "hello"
      [] w = "you?" -> "you"
      [] w = "thanks." -> "thanks"
      [] OTHER -> w

\* question.lower().strip().rstrip("?!.")
normalize_question(question) ==
    [i \in DOMAIN question |->
        IF i = Len(question) THEN RStrip(Lower(question[i]))
        ELSE Lower(question[i])]

\* the intent _detect_conversational finds, "none" when it returns None
conversational_intent(question) ==
    LET q == normalize_question(question) IN
    IF \/ q \in GREETING_PATTERNS
       \/ (Len(q) > 1 /\ q[1] \in {"hi", "hey", "hello"})
    THEN "greeting"
    ELSE IF q \in IDENTITY_PATTERNS THEN "identity"
    ELSE IF q \in THANKS_PATTERNS THEN "thanks"
    ELSE IF q \in HELP_PATTERNS THEN "help"
    ELSE "none"

\* the answers of _detect_conversational
GreetingAnswer(doc_count) ==
    <<"Hello!", "I'm", "your", "**Policy", "Q&A", "Assistant**.", "I", "have",
      "**" \o ToString(doc_count), "policy",
      IF doc_count # 1 THEN "documents**" ELSE "document**",
      "loaded", "and", "ready", "to", "search.", NL, NL,
      "Ask", "me", "anything", "about", "your", "insurance", "policies", "--",
      "for", "example:", NL,
      "-", "\"Is", "wear-and-tear", "covered?\"", NL,
      "-", "\"What", "is", "the", "excess", "for", "water", "damage?\"", NL,
      "-", "\"What", "definitions", "apply", "to", "Insured", "Person?\"",
      NL, NL,
      "I'll", "find", "the", "relevant", "sections", "and", "cite", "the",
      "exact", "source.">>
IdentityAnswer ==
    <<"I'm", "a", "**Policy", "Q&A", "Assistant**", "--", "an", "AI-powered",
      "chatbot", "that", "answers", "questions", "about", "insurance",
      "policy", "documents.", NL, NL,
      "I", "search", "through", "the", "loaded", "policy", "PDFs", "and",
      "give", "you", "**grounded", "answers", "with", "clause-level",
      "citations**", "so", "you", "know", "exactly", "where", "the",
      "information", "comes", "from.", NL, NL,
      "Just", "type", "your", "question", "about", "any", "policy", "topic!">>
ThanksAnswer ==
    <<"You're", "welcome!", "Feel", "free", "to", "ask", "more", "questions",
      "about", "your", "policy", "anytime.">>
HelpAnswer ==
    <<"Here's", "how", "to", "get", "the", "best", "results:", NL, NL,
      "**Ask", "specific", "questions**", "about", "your", "policy,", "such",
      "as:", NL,
      "-", "Coverage:", "\"What", "does", "the", "contents", "insurance",
      "cover?\"", NL,
      "-", "Exclusions:", "\"Is", "flood", "damage", "excluded?\"", NL,
      "-", "Definitions:", "\"How", "is", "'Insured", "Event'", "defined?\"",
      NL,
      "-", "Claims:", "\"How", "do", "I", "lodge", "a", "claim?\"", NL,
      "-", "Conditions:", "\"What", "are", "my", "obligations", "under",
      "the", "policy?\"", NL, NL,
      "I'll", "search", "the", "policy", "documents", "and", "provide",
      "answers", "with", "exact", "citations.">>

\* the follow_ups of _detect_conversational
ConversationalFollowUps(intent) ==
    CASE intent = "greeting" -> NoContextFollowUps
      [] intent = "identity" ->
            <<Suggestion("", <<"What", "documents", "are", "loaded?">>),
              Suggestion("", generic_follow_ups[1]),
              Suggestion("", generic_follow_ups[2])>>
      [] intent = "help" ->
            <<NoContextFollowUps[1], NoContextFollowUps[2],
              Suggestion("", <<"What", "is", "the", "excess", "amount?">>)>>
      [] OTHER -> <<>>

\* the dictionary _detect_conversational returns for an intent
detect_conversational(question, intent, s) ==
    [question |-> question,
     answer |-> CASE intent = "greeting" -> GreetingAnswer(DocCount(s.chunks))
                  [] intent = "identity" -> IdentityAnswer
                  [] intent = "thanks" -> ThanksAnswer
                  [] OTHER -> HelpAnswer,
     citations |-> <<>>,
     sources |-> <<>>,
     confidence |-> 100,
     follow_ups |-> ConversationalFollowUps(intent)]

\* the characters of a chunk ask copies into a source
SOURCE_SNIPPET_CHARS == 200

\* chunk.text[:200]: the whole words within the cut and the characters kept
source_snippet(text) ==
    LET whole == {k \in 0..Len(text) :
                     CharLen(SubSeq(text, 1, k)) <= SOURCE_SNIPPET_CHARS}
        last_whole == CHOOSE k \in whole : \A j \in whole : j <= k
    IN  [words |-> SubSeq(text, 1, last_whole),
         chars |-> Min(CharLen(text), SOURCE_SNIPPET_CHARS)]

\* the source details ask builds of results
source_details(found) ==
    [i \in DOMAIN found |->
        [doc_name |-> found[i].chunk.doc_name,
         section |-> found[i].chunk.section,
         clause |-> found[i].chunk.clause_number,
         page |-> found[i].chunk.page,
         heading_path |-> found[i].chunk.heading_path,
         score |-> found[i].score,
         snippet |-> source_snippet(found[i].chunk.text)]]

\* Retriever.get_best_score
get_best_score(found) == IF found = <<>> THEN 0 ELSE BestScore(found)

\* the outcome of an ask that raised
Raised(ret) == [ret |-> ret, reply |-> <<>>, results |-> <<>>]

\* PolicyQAPipeline.ask; s is the pipeline's vector store, held the store of
\* its retriever, hits what the search structure of held reports for the
\* question
ask(p, rt, s, held, question, hits) ==
    IF ~p.is_initialized THEN Raised("RuntimeError")
    ELSE LET intent == conversational_intent(question) IN
         IF intent # "none"
         THEN [ret |-> "dict",
               reply |-> detect_conversational(question, intent, s),
               results |-> <<>>]
         ELSE LET found == retrieve(rt, held, hits) IN
              IF found.ret # "list" THEN Raised(found.ret)
              ELSE LET llm_result ==
                           generate([i \in DOMAIN question |->
                                        Lower(question[i])],
                                    found.results)
                   IN  [ret |-> "dict",
                        reply |->
                            [question |-> question,
                             answer |-> answer_text(llm_result.answer),
                             citations |->
                                 format_citations(<<>>, found.results),
                             sources |-> source_details(found.results),
                             confidence |-> get_best_score(found.results),
                             follow_ups |-> llm_result.follow_ups],
                        results |-> found.results]

---------------------------------------------------------------------------
(* State machine of the store and the persisted directory *)

\* no request thread is running
NoThreads == <<>>

\* SentenceTransformerBackend.__init__: _model is None; loads counts the
\* times the model was loaded
NewBackend == [model |-> "None", loads |-> 0]

\* no call of the chunker yet
NoJob == [op |-> "none"]

NoCall ==
    [op |-> "none", ret |-> "None", wrote |-> {}, fresh |-> TRUE, arg |-> <<>>,
     top_k |-> 0, load |-> "none", corrupt |-> "none"]

\* the record of a call: arg is the sequence it was given
Call(op, ret, wrote, fresh, arg) ==
    [NoCall EXCEPT !.op = op, !.ret = ret, !.wrote = wrote, !.fresh = fresh,
                   !.arg = arg]

Init ==
    /\ vs = FreshStore
    /\ indexFile = MissingFile
    /\ metaFile = MissingFile
    /\ retriever = [top_k |-> TOP_K, threshold |-> SIMILARITY_THRESHOLD]
    /\ pl = NewPipelineObject("mock")
    /\ last = NoCall
    /\ raw = <<>>
    /\ results = <<>>
    /\ hist = [whole |-> FALSE, torn |-> FALSE, saved |-> <<>>]
    /\ job = NoJob
    /\ emitted = <<>>
    /\ served = FreshStore
    /\ threads = NoThreads
    /\ backend = NewBackend

NewStore ==
    /\ vs' = FreshStore
    /\ last' = Call("new_store", "None", {}, vs = FreshStore, <<>>)
    /\ raw' = <<>>
    /\ results' = <<>>
    /\ UNCHANGED <<indexFile, metaFile, retriever, pl, hist, pure, served, conc>>

\* build_index called with a chunk sequence of the set S
BuildIndexOf(S) ==
    \E chunks \in S, encodeOk \in BOOLEAN :
        LET r == build_index(vs, chunks, encodeOk) IN
        /\ vs' = r.store
        /\ last' = Call("build_index", r.ret, {}, vs = FreshStore, chunks)
        /\ raw' = <<>>
        /\ results' = <<>>
        /\ UNCHANGED <<indexFile, metaFile, retriever, pl, hist, pure, served, conc>>

BuildIndex == BuildIndexOf(ChunkSeqs)

\* what an attempt to save the store s does to the history of the directory,
\* ixf being the search-structure file before it and r the outcome of save;
\* torn: the save stopped between its two writes and changed the directory
HistAfterSave(h, s, ixf, r, cut) ==
    IF r.wrote = {} THEN h
    ELSE IF r.ret = "None"
    THEN [whole |-> TRUE, torn |-> FALSE, saved |-> s.chunks]
    ELSE [whole |-> FALSE,
          torn |-> (cut = "after_index" /\ r.indexFile # ixf),
          saved |-> <<>>]

\* save, interrupted at one of the places of the set C or not at all
SaveAt(C) ==
    \E cut \in C :
        LET r == save(vs, indexFile, metaFile, cut) IN
        /\ (~vs.index.some => cut = "none")
        /\ indexFile' = r.indexFile
        /\ metaFile' = r.metaFile
        /\ hist' = HistAfterSave(hist, vs, indexFile, r, cut)
        /\ last' = Call("save", r.ret, r.wrote, vs = FreshStore, <<>>)
        /\ raw' = <<>>
        /\ results' = <<>>
        /\ UNCHANGED <<vs, retriever, pl, pure, served, conc>>

Save == SaveAt(SaveCuts)

Load ==
    LET r == load(vs, indexFile, metaFile) IN
    /\ vs' = r.store
    /\ last' = Call("load", r.ret, {}, vs = FreshStore, <<>>)
    /\ raw' = <<>>
    /\ results' = <<>>
    /\ UNCHANGED <<indexFile, metaFile, retriever, pl, hist, pure, served, conc>>

Search ==
    \E q \in Queries, top_k \in 1..MaxTopK :
        \E hits \in Reported(vs, Embed(q), top_k) :
            LET r == search(vs, hits) IN
            /\ raw' = hits
            /\ results' = r.results
            /\ last' = [Call("search", r.ret, {}, vs = FreshStore, <<>>)
                           EXCEPT !.top_k = top_k]
            /\ UNCHANGED <<vs, indexFile, metaFile, retriever, pl, hist, pure, served, conc>>

Thresholds == {0, SIMILARITY_THRESHOLD}
TopKs == {1, TOP_K}

\* Retriever.__init__
NewRetriever ==
    \E top_k \in TopKs, threshold \in Thresholds :
        /\ retriever' = [top_k |-> top_k, threshold |-> threshold]
        /\ last' = Call("new_retriever", "None", {}, vs = FreshStore, <<>>)
        /\ raw' = <<>>
        /\ results' = <<>>
        /\ UNCHANGED <<vs, indexFile, metaFile, pl, hist, pure, served, conc>>

Retrieve ==
    \E query \in Queries :
        \E hits \in Reported(vs, encode(<<query>>, 1)[1], retriever.top_k) :
            LET r == retrieve(retriever, vs, hits) IN
            /\ raw' = hits
            /\ results' = r.results
            /\ last' = [Call("retrieve", r.ret, {}, vs = FreshStore, <<>>)
                           EXCEPT !.top_k = retriever.top_k]
            /\ UNCHANGED <<vs, indexFile, metaFile, retriever, pl, hist, pure, served, conc>>

Next ==
    \/ NewStore
    \/ BuildIndex
    \/ Save
    \/ Load

Spec == Init /\ [][Next]_vars

---------------------------------------------------------------------------
(* State machine of searching: the store is built from runs of one corpus *)

\* runs of consecutive chunks of the corpus
Corpora ==
    {SubSeq(Corpus, i, j) : i \in 1..Len(Corpus), j \in 0..Len(Corpus)}
        \cap SeqsUpTo(ChunkPool, MaxChunks)

BuildCorpus == BuildIndexOf(Corpora)

SaveCorpus == SaveAt({"none", "meta_partial"})

NextSearch ==
    \/ NewStore
    \/ BuildCorpus
    \/ SaveCorpus
    \/ Load
    \/ Search
    \/ NewRetriever
    \/ Retrieve

SpecSearch == Init /\ [][NextSearch]_vars

---------------------------------------------------------------------------
(* State machine of the pipeline: vs is the pipeline's vector store and    *)
(* retriever its retriever                                                 *)

\* which persisted file, both being present, cannot be read
Unreadable(ixf, mtf) ==
    IF ArtifactMissing(ixf, mtf) THEN "none"
    ELSE IF ixf.state # "ok" THEN "index"
    ELSE IF mtf.state # "ok" THEN "meta"
    ELSE "none"

NewPipeline ==
    \E name \in BackendNames :
        /\ pl' = NewPipelineObject(name)
        /\ vs' = FreshStore
        /\ last' = Call("new_pipeline", "None", {}, TRUE, <<>>)
        /\ raw' = <<>>
        /\ results' = <<>>
        /\ served' = FreshStore
        /\ UNCHANGED <<indexFile, metaFile, retriever, hist, pure, conc>>

\* initialize, with force_rebuild in F, the encoder working as E says and
\* the save cut short as C says
InitializeWith(F, E, C) ==
    \E force_rebuild \in F, pages \in PageSeqs, encodeOk \in E, cut \in C :
        \E r \in {initialize(pl, indexFile, metaFile, force_rebuild, pages,
                             encodeOk, cut)} :
        /\ (r.wrote = {} => cut = "none")
        /\ (r.ret # "EncodeError" => encodeOk)
        /\ pl' = r.pl
        /\ vs' = r.store
        /\ indexFile' = r.indexFile
        /\ metaFile' = r.metaFile
        /\ retriever' = IF r.pl.retriever
                        THEN [top_k |-> TOP_K, threshold |-> SIMILARITY_THRESHOLD]
                        ELSE retriever
        /\ served' = IF r.ret \in {"None", "ValueError"} THEN r.store
                      ELSE served
        /\ hist' = HistAfterSave(hist, r.store, indexFile,
                                 [r EXCEPT !.ret = IF r.ret = "IOError"
                                                   THEN "IOError" ELSE "None"],
                                 cut)
        /\ last' = [Call("initialize", r.ret, r.wrote, TRUE, pages) EXCEPT
                      !.load = IF force_rebuild THEN "skipped"
                               ELSE load(FreshStore, indexFile, metaFile).ret,
                      !.corrupt = IF force_rebuild THEN "none"
                                  ELSE Unreadable(indexFile, metaFile)]
        /\ raw' = <<>>
        /\ results' = <<>>
        /\ UNCHANGED <<pure, conc>>

Initialize == InitializeWith(BOOLEAN, BOOLEAN, SaveCuts)

NextPipeline ==
    \/ NewPipeline
    \/ Initialize

SpecPipeline == Init /\ [][NextPipeline]_vars

---------------------------------------------------------------------------
(* State machine of asking: the pipeline is initialized without a fault   *)
(* of the encoder or of the disk, and then asked                           *)

QHello == <<"hello!">>
QWho == <<"who", "are", "you?">>
QThanks == <<"thank", "you">>
QHelp == <<"help">>

AskQuestions == Queries \cup {QHello, QWho, QThanks, QHelp}

InitializeSound == InitializeWith(BOOLEAN, {TRUE}, {"none"})

Ask ==
    \E question \in AskQuestions :
        \E hits \in Reported(served, encode(<<question>>, 1)[1],
                              retriever.top_k) :
            \E r \in {ask(pl, retriever, vs, served, question, hits)} :
            LET retrieved == /\ pl.is_initialized
                             /\ conversational_intent(question) = "none"
            IN  /\ raw' = IF retrieved THEN hits ELSE raw
                /\ results' = IF retrieved THEN r.results ELSE results
                /\ job' = [op |-> "ask", done |-> TRUE, question |-> question,
                           retrieved |-> retrieved, results |-> r.results]
                /\ emitted' = r.reply
                /\ last' = Call("ask", r.ret, {}, served = FreshStore, <<>>)
                /\ UNCHANGED <<vs, indexFile, metaFile, retriever, pl, hist, served,
                              conc>>

NextAsk ==
    \/ NewPipeline
    \/ InitializeSound
    \/ Ask

SpecAsk == Init /\ [][NextAsk]_vars

---------------------------------------------------------------------------
(* State machine of the chunker: one call, its arguments drawn at the start *)

SRust == <<"Rust", "is", "excluded.">>
SFlood == <<"We", "cover", "flood.">>
SNot == <<"not", "rust.">>
SOne == <<"1.">>

SentencePool == {SRust, SFlood, SNot, SOne}

\* section texts: up to MaxSentences sentences, one blank apart
SectionTexts ==
    {Join(ss) : ss \in UNION {[1..n -> SentencePool] : n \in 1..MaxSentences}}

ChunkSizes == {3, 5, 8}
ChunkOverlaps == {0, 2, 4}
MinChunkSizes == {0, 1, 3, 4}

SubChunkJobs ==
    {[op |-> "sub_chunk_text", done |-> FALSE, text |-> t, chunk_size |-> cs,
      chunk_overlap |-> co, min_chunk_size |-> mn] :
        t \in SectionTexts, cs \in ChunkSizes, co \in ChunkOverlaps,
        mn \in MinChunkSizes}

\* page texts: lines of headings and sentences
PageCaps == <<"EXCLUSIONS", NL>> \o SRust \o SNot
PageNumbered == <<"4.2.", "Exclusions", NL>> \o SRust
PagePlain == SFlood \o SRust \o SNot
PageGeneral == <<"General", "Conditions", NL>> \o SFlood
PageTwoSections == SRust \o <<NL, NL, "Exclusions:", NL>> \o SFlood
PageCrossRef == <<"1.", "Cover", NL>> \o SFlood \o <<"see", "Section", "3.1">>
PageHeadingOnly == <<"EXCLUSIONS">>
PageTiny == SOne

PageTexts ==
    {PageCaps, PageNumbered, PagePlain, PageGeneral, PageTwoSections,
     PageCrossRef, PageHeadingOnly, PageTiny}

\* the document and page number of the pages load_all_documents yields
PageSlots ==
    <<[doc_name |-> "Home.pdf", page_num |-> 1],
      [doc_name |-> "Home.pdf", page_num |-> 2],
      [doc_name |-> "Motor.pdf", page_num |-> 1],
      [doc_name |-> "Motor.pdf", page_num |-> 3]>>

ChunkerPageSeqs ==
    {[i \in 1..n |-> [doc_name |-> PageSlots[i].doc_name,
                      page_num |-> PageSlots[i].page_num,
                      text |-> ts[i]]] :
        n \in 1..Min(MaxPages, Len(PageSlots)), ts \in [1..MaxPages -> PageTexts]}

\* chunk_size, chunk_overlap and min_chunk_size handed to chunk_pages
ChunkerParams ==
    {<<3, 2, 1>>, <<5, 0, 3>>, <<CHUNK_SIZE, CHUNK_OVERLAP, MIN_CHUNK_SIZE>>}

ChunkPagesJobs ==
    {[op |-> "chunk_pages", done |-> FALSE, pages |-> ps,
      chunk_size |-> pr[1], chunk_overlap |-> pr[2], min_chunk_size |-> pr[3],
      kw_order |-> o] :
        ps \in ChunkerPageSeqs, pr \in ChunkerParams, o \in KeywordOrders}

\* chunks with every combination of empty and non-empty metadata
CitedChunks ==
    {[text |-> TxtWear, doc_name |-> d, page |-> pg, section |-> sec,
      clause_number |-> cl, heading_path |-> hp, cross_references |-> <<>>,
      chunk_id |-> 0] :
        d \in {"Home.pdf", "Motor.pdf"}, pg \in {1, 12},
        sec \in {<<>>, <<"Exclusions">>}, cl \in {"", "4.2"},
        hp \in {<<>>, <<"4.2.", "Exclusions">>}}

CitationJobs ==
    {[op |-> "citation_string", done |-> FALSE, chunk |-> c] : c \in CitedChunks}

\* the pages of two documents, interleaved, whose sections chunk_pages
\* meets one after the other
StackSlots ==
    <<[doc_name |-> "Home.pdf", page_num |-> 1],
      [doc_name |-> "Motor.pdf", page_num |-> 1],
      [doc_name |-> "Home.pdf", page_num |-> 2],
      [doc_name |-> "Motor.pdf", page_num |-> 2]>>

\* a page with a heading of depth 1 and one of depth 2 below it
PageNested ==
    <<"1.", "Cover", NL>> \o SFlood \o <<NL, "4.2.", "Exclusions", NL>> \o SRust

StackTexts ==
    {PageCaps, PageNumbered, PageCrossRef, PagePlain, PageTwoSections,
     PageNested}

StackPageSeqs ==
    UNION {{[i \in 1..n |-> [doc_name |-> StackSlots[i].doc_name,
                             page_num |-> StackSlots[i].page_num,
                             text |-> ts[i]]] : ts \in [1..n -> StackTexts]} :
              n \in 1..Min(MaxPages + 1, Len(StackSlots))}

\* the page the loop of chunk_pages is at when it has taken all of pages
LastPage(pages) == pages[Len(pages)]

\* one pass of the loop over the sections: the section upto of the last
\* page of pages, after all the pages and sections before it
ChunkSectionJobs ==
    UNION {{[op |-> "chunk_section", done |-> FALSE, pages |-> ps, upto |-> k,
             chunk_size |-> CHUNK_SIZE, chunk_overlap |-> CHUNK_OVERLAP,
             min_chunk_size |-> MIN_CHUNK_SIZE, kw_order |-> KeywordOrder] :
               k \in 1..Len(split_into_sections(LastPage(ps).text))} :
              ps \in StackPageSeqs}

\* all_chunks, chunk_id and heading_stack when the loop of chunk_pages
\* reaches the section upto of the last page of pages
state_before_section(pages, upto, chunk_size, chunk_overlap, min_chunk_size, kw_order) ==
    chunk_sections(
        page_loop(new_chunk_state(pages), SubSeq(pages, 1, Len(pages) - 1),
                  chunk_size, chunk_overlap, min_chunk_size, kw_order),
        LastPage(pages),
        SubSeq(split_into_sections(LastPage(pages).text), 1, upto - 1),
        chunk_size, chunk_overlap, min_chunk_size, kw_order)

InitChunk ==
    /\ vs = FreshStore
    /\ indexFile = MissingFile
    /\ metaFile = MissingFile
    /\ retriever = [top_k |-> TOP_K, threshold |-> SIMILARITY_THRESHOLD]
    /\ pl = NewPipelineObject("mock")
    /\ last = NoCall
    /\ raw = <<>>
    /\ results = <<>>
    /\ hist = [whole |-> FALSE, torn |-> FALSE, saved |-> <<>>]
    /\ job \in SubChunkJobs \cup ChunkPagesJobs \cup CitationJobs
                \cup ChunkSectionJobs
    /\ emitted = <<>>
    /\ served = FreshStore
    /\ threads = NoThreads
    /\ backend = NewBackend

SubChunkText ==
    /\ job.op = "sub_chunk_text"
    /\ ~job.done
    /\ emitted' = sub_chunk_text(job.text, job.chunk_size, job.chunk_overlap,
                                 job.min_chunk_size)
    /\ job' = [job EXCEPT !.done = TRUE]
    /\ UNCHANGED <<vs, indexFile, metaFile, retriever, pl, last, raw, results,
                   hist, served, conc>>

ChunkPages ==
    /\ job.op = "chunk_pages"
    /\ ~job.done
    /\ emitted' = chunk_pages(job.pages, job.chunk_size, job.chunk_overlap,
                              job.min_chunk_size, job.kw_order)
    /\ job' = [job EXCEPT !.done = TRUE]
    /\ UNCHANGED <<vs, indexFile, metaFile, retriever, pl, last, raw, results,
                   hist, served, conc>>

CitationString ==
    /\ job.op = "citation_string"
    /\ ~job.done
    /\ emitted' = citation_string(job.chunk)
    /\ job' = [job EXCEPT !.done = TRUE]
    /\ UNCHANGED <<vs, indexFile, metaFile, retriever, pl, last, raw, results,
                   hist, served, conc>>

\* the body of the loop over the sections, for one section; the heading
\* stacks after it are what the call leaves behind
ChunkSection ==
    /\ job.op = "chunk_section"
    /\ ~job.done
    /\ emitted' = chunk_section(
                      state_before_section(job.pages, job.upto, job.chunk_size,
                                           job.chunk_overlap,
                                           job.min_chunk_size, job.kw_order),
                      LastPage(job.pages),
                      split_into_sections(LastPage(job.pages).text)[job.upto],
                      job.chunk_size, job.chunk_overlap, job.min_chunk_size,
                      job.kw_order).heading_stack
    /\ job' = [job EXCEPT !.done = TRUE]
    /\ UNCHANGED <<vs, indexFile, metaFile, retriever, pl, last, raw, results,
                   hist, served, conc>>

NextChunk ==
    \/ SubChunkText
    \/ ChunkPages
    \/ CitationString
    \/ ChunkSection

SpecChunk == InitChunk /\ [][NextChunk]_vars

---------------------------------------------------------------------------
(* State machine of the answer composer: one call of generate, its         *)
(* arguments drawn at the start                                            *)

\* n copies of a text, one blank apart
RECURSIVE Repeat(_, _)
Repeat(text, n) == IF n = 0 THEN <<>> ELSE text \o Repeat(text, n - 1)

KRust ==
    [text |-> SRust \o SFlood, doc_name |-> "Home.pdf", page |-> 12,
     section |-> <<"Exclusions">>, clause_number |-> "4.2",
     heading_path |-> <<"4.2.", "Exclusions">>, cross_references |-> <<>>,
     chunk_id |-> 0]

\* a chunk of the same section, too short to yield a passage
KNot ==
    [text |-> SNot, doc_name |-> "Home.pdf", page |-> 12,
     section |-> <<"Exclusions">>, clause_number |-> "4.2",
     heading_path |-> <<"4.2.", "Exclusions">>, cross_references |-> <<>>,
     chunk_id |-> 1]

KFlood ==
    [text |-> SFlood, doc_name |-> "Motor.pdf", page |-> 1,
     section |-> <<"Limits">>, clause_number |-> "",
     heading_path |-> <<"1.", "Cover", ">", "Limits">>,
     cross_references |-> <<>>, chunk_id |-> 2]

\* nine sentences, longer than the 150 characters of a snippet
KLong ==
    [text |-> Repeat(SRust, 9), doc_name |-> "Home.pdf", page |-> 13,
     section |-> <<>>, clause_number |-> "", heading_path |-> <<>>,
     cross_references |-> <<>>, chunk_id |-> 3]

ComposerChunks == {KRust, KNot, KFlood, KLong}

ComposerScores == {10, 30}

\* ranked results: distinct chunks, the scores never rising
RankedResults ==
    UNION {{r \in [1..n -> [chunk : ComposerChunks, score : ComposerScores]] :
               /\ \A i, j \in 1..n : i < j => r[i].chunk # r[j].chunk
               /\ \A i, j \in 1..n : i < j => r[i].score >= r[j].score} :
           n \in 0..MaxResults}

GRust == <<"is", "rust", "excluded">>
GExclusions == <<"what", "exclusions", "apply">>
GMany ==
    <<"what", "items", "are", "excluded", "and", "what", "is", "the",
      "claims", "process", "the", "general", "conditions", "and", "how", "is",
      "the", "excess", "calculated">>

\* the questions handed to generate, in lower case
Questions == {GRust, GExclusions, GMany, LowerNoColon(QCapital)}

GenerateJobs ==
    {[op |-> "generate", done |-> FALSE, question |-> q, results |-> r] :
        q \in Questions, r \in RankedResults}

InitCompose ==
    /\ vs = FreshStore
    /\ indexFile = MissingFile
    /\ metaFile = MissingFile
    /\ retriever = [top_k |-> TOP_K, threshold |-> SIMILARITY_THRESHOLD]
    /\ pl = NewPipelineObject("mock")
    /\ last = NoCall
    /\ raw = <<>>
    /\ results = <<>>
    /\ hist = [whole |-> FALSE, torn |-> FALSE, saved |-> <<>>]
    /\ job \in GenerateJobs
    /\ emitted = <<>>
    /\ served = FreshStore
    /\ threads = NoThreads
    /\ backend = NewBackend

Generate ==
    /\ job.op = "generate"
    /\ ~job.done
    /\ emitted' = generate(job.question, job.results)
    /\ job' = [job EXCEPT !.done = TRUE]
    /\ UNCHANGED <<vs, indexFile, metaFile, retriever, pl, last, raw, results,
                   hist, served, conc>>

NextCompose ==
    \/ Generate

SpecCompose == InitCompose /\ [][NextCompose]_vars

---------------------------------------------------------------------------
(* State machine of lazy loading: request threads call encode on one      *)
(* SentenceTransformerBackend; a thread can be preempted between the test *)
(* of _load_model and its assignment                                      *)

\* the frame of the concurrent calls on the backend
LoadFrame ==
    UNCHANGED <<vs, indexFile, metaFile, retriever, pl, last, raw, results,
                hist, pure, served>>

InitLoad ==
    /\ vs = FreshStore
    /\ indexFile = MissingFile
    /\ metaFile = MissingFile
    /\ retriever = [top_k |-> TOP_K, threshold |-> SIMILARITY_THRESHOLD]
    /\ pl = NewPipelineObject("mock")
    /\ last = NoCall
    /\ raw = <<>>
    /\ results = <<>>
    /\ hist = [whole |-> FALSE, torn |-> FALSE, saved |-> <<>>]
    /\ job = NoJob
    /\ emitted = <<>>
    /\ served = FreshStore
    /\ threads = [t \in 1..MaxThreads |-> [pc |-> "idle", calls |-> 0]]
    /\ backend = NewBackend

\* a thread enters encode, which calls _load_model
CallEncode(t) ==
    /\ threads[t].pc = "idle"
    /\ threads[t].calls < MaxCalls
    /\ threads' = [threads EXCEPT ![t].pc = "load_model"]
    /\ UNCHANGED backend
    /\ LoadFrame

\* self._model is None
ModelIsNone(b) == b.model = "None"

\* _load_model: the test
TestModel(t) ==
    /\ threads[t].pc = "load_model"
    /\ threads' = [threads EXCEPT
                      ![t].pc = IF ModelIsNone(backend) THEN "loading"
                                ELSE "encoding"]
    /\ UNCHANGED backend
    /\ LoadFrame

\* _load_model: the model is read from disk and assigned
LoadModel(t) ==
    /\ threads[t].pc = "loading"
    /\ backend' = [model |-> "loaded", loads |-> backend.loads + 1]
    /\ threads' = [threads EXCEPT ![t].pc = "encoding"]
    /\ LoadFrame

\* the batches of encode, and its return
ModelEncode(t) ==
    /\ threads[t].pc = "encoding"
    /\ ~ModelIsNone(backend)
    /\ threads' = [threads EXCEPT ![t].pc = "idle",
                                  ![t].calls = threads[t].calls + 1]
    /\ UNCHANGED backend
    /\ LoadFrame

NextLoad ==
    \/ \E t \in DOMAIN threads : CallEncode(t)
    \/ \E t \in DOMAIN threads : TestModel(t)
    \/ \E t \in DOMAIN threads : LoadModel(t)
    \/ \E t \in DOMAIN threads : ModelEncode(t)

SpecLoad == InitLoad /\ [][NextLoad]_vars

---------------------------------------------------------------------------
(* State machine of concurrent readers: request threads run retrieve on   *)
(* one Retriever over one built store, each statement a step of its own   *)

\* Retriever.build_context: the header and the text of each result
build_context(found) ==
    [i \in DOMAIN found |->
        [source |-> i,
         doc_name |-> found[i].chunk.doc_name,
         clause |-> found[i].chunk.clause_number,
         section |-> found[i].chunk.section,
         page |-> found[i].chunk.page,
         text |-> found[i].chunk.text]]

\* the stores build_index leaves of the runs of the corpus
BuiltStores == {build_index(FreshStore, c, TRUE).store : c \in Corpora}

\* the locals of retrieve all calls keeping them in the frame of thread 1
FrameShared(t) == 1

\* the frame that holds the locals of the call thread t runs: its own
Frame(t) == t

\* the locals of retrieve and of search before they are assigned
EmptyFrame ==
    [hits |-> <<>>, results |-> <<>>, filtered |-> <<>>, deduped |-> <<>>]

\* nothing returned yet
NoReturn == [ret |-> "none"]

InitReaders ==
    /\ vs \in BuiltStores
    /\ indexFile = MissingFile
    /\ metaFile = MissingFile
    /\ retriever \in {[top_k |-> k, threshold |-> th] :
                         k \in TopKs, th \in Thresholds}
    /\ pl = NewPipelineObject("mock")
    /\ last = NoCall
    /\ raw = <<>>
    /\ results = <<>>
    /\ hist = [whole |-> FALSE, torn |-> FALSE, saved |-> <<>>]
    /\ job = NoJob
    /\ emitted = <<>>
    /\ served = FreshStore
    /\ threads = [t \in 1..MaxThreads |->
                     [pc |-> "idle", query |-> <<>>, frame |-> EmptyFrame,
                      returned |-> NoReturn]]
    /\ backend = NewBackend

\* the frame of the readers: no reader assigns anything but its locals
ReadersFrame ==
    UNCHANGED <<vs, indexFile, metaFile, retriever, pl, last, raw, results,
                hist, pure, served, backend>>

\* a thread enters retrieve
CallRetrieve(t) ==
    \E query \in Queries :
        /\ threads[t].pc = "idle"
        /\ threads' = [threads EXCEPT ![t].pc = "search",
                                      ![t].query = query,
                                      ![t].returned = NoReturn,
                                      ![Frame(t)].frame = EmptyFrame]
        /\ ReadersFrame

\* results = self._store.search(query_emb, top_k)
StoreSearch(t) ==
    \E hits \in Reported(vs, encode(<<threads[t].query>>, 1)[1],
                         retriever.top_k) :
        \E found \in {search(vs, hits)} :
            /\ threads[t].pc = "search"
            /\ threads' =
                  IF found.ret # "list"
                  THEN [threads EXCEPT ![t].pc = "idle",
                                       ![t].returned = [ret |-> found.ret]]
                  ELSE [threads EXCEPT
                           ![t].pc = "filter",
                           ![Frame(t)].frame.hits = hits,
                           ![Frame(t)].frame.results = found.results]
            /\ ReadersFrame

\* filtered = [... if score >= self._threshold]
FilterResults(t) ==
    /\ threads[t].pc = "filter"
    /\ threads' = [threads EXCEPT
                      ![t].pc = "dedup",
                      ![Frame(t)].frame.filtered =
                          threshold_filter(threads[Frame(t)].frame.results,
                                           retriever.threshold)]
    /\ ReadersFrame

\* deduped = self._deduplicate(filtered)
DeduplicateResults(t) ==
    /\ threads[t].pc = "dedup"
    /\ threads' = [threads EXCEPT
                      ![t].pc = "return",
                      ![Frame(t)].frame.deduped =
                          deduplicate(threads[Frame(t)].frame.filtered)]
    /\ ReadersFrame

\* return deduped, and the caller's build_context and format_citations
ReturnResults(t) ==
    /\ threads[t].pc = "return"
    /\ threads' = [threads EXCEPT
                      ![t].pc = "idle",
                      ![t].returned =
                          [ret |-> "list",
                           results |-> threads[Frame(t)].frame.deduped,
                           context |->
                               build_context(threads[Frame(t)].frame.deduped),
                           citations |->
                               format_citations(
                                   <<>>, threads[Frame(t)].frame.deduped)]]
    /\ ReadersFrame

NextReaders ==
    \/ \E t \in DOMAIN threads : CallRetrieve(t)
    \/ \E t \in DOMAIN threads : StoreSearch(t)
    \/ \E t \in DOMAIN threads : FilterResults(t)
    \/ \E t \in DOMAIN threads : DeduplicateResults(t)
    \/ \E t \in DOMAIN threads : ReturnResults(t)

SpecReaders == InitReaders /\ [][NextReaders]_vars

---------------------------------------------------------------------------
(* State machine of rebuilding while serving: thread 1 runs initialize,   *)
(* each statement a step of its own, and the other threads serve requests *)
(* in between; vs is the object self._vector_store names and served the   *)
(* object the retriever was constructed with                              *)

\* PolicyQAPipeline.get_stats; s is the store self._vector_store names
get_stats(p, s) ==
    [documents |-> p.doc_count,
     chunks |-> p.chunk_count,
     llm_backend |-> IF p.llm # "None" THEN p.llm ELSE "not initialized",
     index_loaded |-> IF p.vector_store THEN s.is_loaded ELSE FALSE,
     doc_names |-> IF p.vector_store THEN DocCount(s.chunks) ELSE 0]

\* the thread that calls initialize, before its first call
InitializerThread ==
    [pc |-> "idle", calls |-> 0, force_rebuild |-> FALSE, pages |-> <<>>,
     chunks |-> <<>>, ret |-> "None"]

\* a request thread that has served nothing yet
RequestThread == [pc |-> "idle", seen |-> [op |-> "none"]]

InitRebuild ==
    /\ vs = FreshStore
    /\ indexFile = MissingFile
    /\ metaFile = MissingFile
    /\ retriever = [top_k |-> TOP_K, threshold |-> SIMILARITY_THRESHOLD]
    /\ pl = NewPipelineObject("mock")
    /\ last = NoCall
    /\ raw = <<>>
    /\ results = <<>>
    /\ hist = [whole |-> FALSE, torn |-> FALSE, saved |-> <<>>]
    /\ job = NoJob
    /\ emitted = <<>>
    /\ served = FreshStore
    /\ threads = [t \in 1..MaxThreads |->
                     IF t = 1 THEN InitializerThread ELSE RequestThread]
    /\ backend = NewBackend

\* the step of thread 1 to the place pc
Goto(pc) == threads' = [threads EXCEPT ![1].pc = pc]

\* what no statement of initialize and no request assigns
RebuildFrame == UNCHANGED <<last, raw, results, hist, pure, backend>>

CallInitialize ==
    \E force_rebuild \in BOOLEAN :
        /\ threads[1].pc = "idle"
        /\ threads[1].calls < MaxCalls
        /\ threads' = [threads EXCEPT
                          ![1] = [InitializerThread EXCEPT
                                     !.pc = "embedding_backend",
                                     !.calls = threads[1].calls + 1,
                                     !.force_rebuild = force_rebuild]]
        /\ UNCHANGED <<vs, indexFile, metaFile, retriever, pl, served>>
        /\ RebuildFrame

\* self._embedding_backend = get_embedding_backend(...)
SetEmbeddingBackend ==
    /\ threads[1].pc = "embedding_backend"
    /\ pl' = [pl EXCEPT !.embedding_backend = TRUE]
    /\ Goto("vector_store")
    /\ UNCHANGED <<vs, indexFile, metaFile, retriever, served>>
    /\ RebuildFrame

\* self._vector_store = VectorStore(...): a new, empty object
SetVectorStore ==
    /\ threads[1].pc = "vector_store"
    /\ vs' = FreshStore
    /\ pl' = [pl EXCEPT !.vector_store = TRUE]
    /\ Goto(IF threads[1].force_rebuild THEN "ingest" ELSE "load")
    /\ UNCHANGED <<indexFile, metaFile, retriever, served>>
    /\ RebuildFrame

\* self._vector_store.load(), and the counts taken of a loaded index
LoadCached ==
    \E ld \in {load(vs, indexFile, metaFile)} :
        /\ threads[1].pc = "load"
        /\ vs' = ld.store
        /\ pl' = IF UseCached(FALSE, ld.ret)
                 THEN [pl EXCEPT !.chunk_count = Len(ld.store.chunks),
                                 !.doc_count = DocCount(ld.store.chunks)]
                 ELSE pl
        /\ Goto(IF UseCached(FALSE, ld.ret) THEN "retriever" ELSE "ingest")
        /\ UNCHANGED <<indexFile, metaFile, retriever, served>>
        /\ RebuildFrame

\* load_all_documents, the error for no document, and the document count
IngestDocuments ==
    \E pages \in PageSeqs :
        /\ threads[1].pc = "ingest"
        /\ IF pages = <<>>
           THEN /\ threads' = [threads EXCEPT ![1].pc = "idle",
                                              ![1].ret = "RuntimeError"]
                /\ pl' = pl
           ELSE /\ threads' = [threads EXCEPT ![1].pc = "chunk",
                                              ![1].pages = pages]
                /\ pl' = [pl EXCEPT
                            !.doc_count =
                                Cardinality({pages[i].doc_name :
                                                i \in DOMAIN pages})]
        /\ UNCHANGED <<vs, indexFile, metaFile, retriever, served>>
        /\ RebuildFrame

\* self._chunks = chunk_pages(...), and the chunk count
ChunkDocuments ==
    \E chunks \in {ConfiguredChunks[threads[1].pages]} :
        /\ threads[1].pc = "chunk"
        /\ threads' = [threads EXCEPT ![1].pc = "build_index",
                                      ![1].chunks = chunks]
        /\ pl' = [pl EXCEPT !.chunk_count = Len(chunks)]
        /\ UNCHANGED <<vs, indexFile, metaFile, retriever, served>>
        /\ RebuildFrame

\* build_index up to the embedding call: self._chunks = chunks
BuildChunks ==
    /\ threads[1].pc = "build_index"
    /\ vs' = build_index(vs, threads[1].chunks, FALSE).store
    /\ Goto(IF threads[1].chunks = <<>> THEN "save" ELSE "encode")
    /\ UNCHANGED <<indexFile, metaFile, retriever, pl, served>>
    /\ RebuildFrame

\* build_index from the embedding call on: _index and _is_loaded
BuildVectors ==
    /\ threads[1].pc = "encode"
    /\ vs' = build_index(vs, threads[1].chunks, TRUE).store
    /\ Goto("save")
    /\ UNCHANGED <<indexFile, metaFile, retriever, pl, served>>
    /\ RebuildFrame

\* self._vector_store.save()
SaveIndex ==
    \E sv \in {save(vs, indexFile, metaFile, "none")} :
        /\ threads[1].pc = "save"
        /\ indexFile' = sv.indexFile
        /\ metaFile' = sv.metaFile
        /\ Goto("retriever")
        /\ UNCHANGED <<vs, retriever, pl, served>>
        /\ RebuildFrame

\* self._retriever = Retriever(self._vector_store, ...)
SetRetriever ==
    /\ threads[1].pc = "retriever"
    /\ pl' = [pl EXCEPT !.retriever = TRUE]
    /\ retriever' = [top_k |-> TOP_K, threshold |-> SIMILARITY_THRESHOLD]
    /\ served' = vs
    /\ Goto("llm")
    /\ UNCHANGED <<vs, indexFile, metaFile>>
    /\ RebuildFrame

\* self._llm = get_llm_backend(self._llm_backend_name)
SetLLM ==
    \E llm \in {get_llm_backend(pl.llm_backend_name)} :
        /\ threads[1].pc = "llm"
        /\ IF llm = "ValueError"
           THEN /\ threads' = [threads EXCEPT ![1].pc = "idle",
                                              ![1].ret = "ValueError"]
                /\ pl' = pl
           ELSE /\ Goto("is_initialized")
                /\ pl' = [pl EXCEPT !.llm = llm]
        /\ UNCHANGED <<vs, indexFile, metaFile, retriever, served>>
        /\ RebuildFrame

\* self._is_initialized = True, and the return
SetInitialized ==
    /\ threads[1].pc = "is_initialized"
    /\ pl' = [pl EXCEPT !.is_initialized = TRUE]
    /\ Goto("idle")
    /\ UNCHANGED <<vs, indexFile, metaFile, retriever, served>>
    /\ RebuildFrame

\* initialize(force_rebuild=True) is under way
Rebuilding == threads[1].pc # "idle" /\ threads[1].force_rebuild

\* a request thread calls get_stats
GetStats(t) ==
    /\ t # 1
    /\ threads' = [threads EXCEPT
                      ![t].seen = [op |-> "get_stats",
                                   initialized |-> pl.is_initialized,
                                   rebuilding |-> Rebuilding,
                                   store |-> vs,
                                   reply |-> get_stats(pl, vs)]]
    /\ UNCHANGED <<vs, indexFile, metaFile, retriever, pl, served>>
    /\ RebuildFrame

\* the questions asked while the index is rebuilt
RebuildQuestions == {QHello, QWear}

\* a request thread calls ask; the greeting reads the store
\* self._vector_store names, a policy question the store of the retriever
AskWhileRebuilding(t) ==
    \E question \in RebuildQuestions :
        \E hits \in Reported(served, encode(<<question>>, 1)[1],
                             retriever.top_k) :
            \E r \in {ask(pl, retriever, vs, served, question, hits)} :
                /\ t # 1
                /\ threads' =
                      [threads EXCEPT
                          ![t].seen =
                              [op |-> "ask",
                               initialized |-> pl.is_initialized,
                               rebuilding |-> Rebuilding,
                               store |-> IF conversational_intent(question)
                                            = "none"
                                         THEN served ELSE vs,
                               reply |-> [ret |-> r.ret,
                                          question |-> question]]]
                /\ UNCHANGED <<vs, indexFile, metaFile, retriever, pl, served>>
                /\ RebuildFrame

NextRebuild ==
    \/ CallInitialize
    \/ SetEmbeddingBackend
    \/ SetVectorStore
    \/ LoadCached
    \/ IngestDocuments
    \/ ChunkDocuments
    \/ BuildChunks
    \/ BuildVectors
    \/ SaveIndex
    \/ SetRetriever
    \/ SetLLM
    \/ SetInitialized
    \/ \E t \in DOMAIN threads : GetStats(t)
    \/ \E t \in DOMAIN threads : AskWhileRebuilding(t)

SpecRebuild == InitRebuild /\ [][NextRebuild]_vars

---------------------------------------------------------------------------
(* Properties *)

\* the search structure of s holds, position by position, the embeddings of
\* the chunks of s
IndexMatchesChunks(s) ==
    /\ s.index.some
    /\ Len(s.index.vecs) = Len(s.chunks)
    /\ \A i \in DOMAIN s.chunks : s.index.vecs[i] = Embed(s.chunks[i].text)

\* C1: in every state reached by build_index, save and load calls, calls
\* that raise part-way included, a store whose is_loaded is true holds as
\* many vectors as chunks and vector i is the embedding of chunk i.
C1_ParallelOrder == vs.is_loaded => IndexMatchesChunks(vs)

\* C2: a load that follows a save interrupted between the write of the
\* search structure and the write of the chunk metadata returns false, so
\* that it never returns true on files of two different builds.
C2_TornSaveDetected ==
    (last.op = "load" /\ hist.torn) => last.ret = "False"

\* C3: build_index stores the chunk sequence it is given, and a load that
\* follows a complete save returns true and yields the saved chunk list:
\* same length, same order, every field equal, chunk_id from the metadata.
C3_RoundTrip ==
    /\ (last.op = "build_index" /\ last.ret = "None" /\ last.arg # <<>>)
          => vs.chunks = last.arg
    /\ (last.op = "load" /\ hist.whole)
          => (last.ret = "True" /\ vs.chunks = hist.saved)

C3_Witness ==
    /\ last.op = "load"
    /\ last.ret = "True"
    /\ last.fresh
    /\ hist.whole
    /\ vs.chunks = <<CWear, CFlood>>
    /\ IndexMatchesChunks(vs)

\* C4: build_index called with an empty chunk sequence raises
\* EmptyCorpusError, writes no file and leaves the index, the chunk list
\* and is_loaded as they were.
C4_EmptyCorpusRaises ==
    [][(last'.op = "build_index" /\ last'.arg = <<>>)
          => /\ last'.ret = "EmptyCorpusError"
             /\ last'.wrote = {}
             /\ UNCHANGED <<vs, indexFile, metaFile>>]_vars

\* C5: save on a store on which no build_index or load has completed fails
\* with NotBuiltError and writes neither persisted file.
C5_SaveBeforeBuildRaises ==
    [][(last'.op = "save" /\ ~vs.is_loaded)
          => /\ last'.ret = "NotBuiltError"
             /\ last'.wrote = {}
             /\ UNCHANGED <<indexFile, metaFile>>]_vars

\* C6: load returns false without raising whenever one of the two persisted
\* files is missing, and then leaves the index, the chunk list and is_loaded
\* exactly as they were.
C6_LoadMissingFile ==
    [][(last'.op = "load"
          /\ (indexFile.state = "missing" \/ metaFile.state = "missing"))
          => /\ last'.ret = "False"
             /\ UNCHANGED <<vs, indexFile, metaFile>>]_vars

C6_Witness ==
    /\ last.op = "load"
    /\ last.ret = "False"
    /\ indexFile.state = "ok"
    /\ metaFile.state = "missing"
    /\ vs.is_loaded
    /\ vs.index.vecs # indexFile.data

\* the store build_index leaves when it is given chunks and does not raise
BuiltFrom(chunks) ==
    [index |-> [some |-> TRUE,
                vecs |-> [i \in DOMAIN chunks |-> Embed(chunks[i].text)]],
     chunks |-> chunks, is_loaded |-> TRUE]

\* C7: when both persisted files exist and one of them cannot be read,
\* the load of initialize(force_rebuild=False) returns false without
\* raising, initialize fails at the ingest step only when there is no
\* document, and an initialize that returns leaves the pipeline initialized
\* on the index built from the ingested documents, which it has saved.
C7_CorruptFallsBack ==
    (last.op = "initialize" /\ last.corrupt # "none")
       => /\ last.load = "False"
          /\ (last.ret = "RuntimeError") <=> (last.arg = <<>>)
          /\ last.ret = "None"
                => /\ pl.is_initialized
                   /\ vs = BuiltFrom(chunk_pages(last.arg, CHUNK_SIZE, CHUNK_OVERLAP,
                                             MIN_CHUNK_SIZE, KeywordOrder))
                   /\ last.wrote = {"index", "meta"}
                   /\ indexFile = [state |-> "ok", data |-> vs.index.vecs]
                   /\ metaFile.state = "ok"
                   /\ Len(metaFile.data) = Len(vs.chunks)

C7_Witness ==
    /\ last.op = "initialize"
    /\ last.corrupt = "meta"
    /\ last.ret = "None"
    /\ pl.is_initialized
    /\ Len(vs.chunks) = 2

\* C8: search on a store on which neither build_index nor load has
\* completed returns the empty sequence and does not raise, for every
\* query and top_k.
C8_SearchUnbuilt ==
    (last.op = "search" /\ ~vs.is_loaded)
       => (last.ret = "list" /\ results = <<>>)

C8_Witness ==
    /\ last.op = "search"
    /\ ~vs.is_loaded
    /\ vs.index.some
    /\ vs.chunks # <<>>
    /\ results = <<>>

\* a reported row whose position is a position of the chunk list
C9_Valid(h) == h.idx >= 0 /\ h.idx < Len(vs.chunks)

\* C9: search on a built or loaded store returns at most top_k pairs in
\* non-increasing score order, one for each reported row whose position is
\* within the chunk list, in the reported order, each holding the chunk at
\* that position; the other rows are skipped without error.
C9_SearchResults ==
    (last.op = "search" /\ vs.is_loaded)
       => LET valid == SelectSeq(raw, C9_Valid) IN
          /\ last.ret = "list"
          /\ Len(results) <= last.top_k
          /\ \A i, j \in DOMAIN results :
                i < j => results[i].score >= results[j].score
          /\ Len(results) = Len(valid)
          /\ \A i \in DOMAIN results :
                /\ results[i].chunk = vs.chunks[valid[i].idx + 1]
                /\ results[i].score = valid[i].score

C9_Witness ==
    /\ last.op = "search"
    /\ vs.is_loaded
    /\ \E i \in DOMAIN raw : raw[i].idx = -1
    /\ \E i \in DOMAIN raw : raw[i].idx >= Len(vs.chunks)
    /\ Len(results) >= 1

\* C10: every (chunk, score) pair retrieve returns has a score at or above
\* the similarity threshold of the retriever.
C10_ThresholdFilter ==
    last.op = "retrieve"
       => \A i \in DOMAIN results : results[i].score >= retriever.threshold

C10_Witness ==
    /\ last.op = "retrieve"
    /\ retriever.threshold = SIMILARITY_THRESHOLD
    /\ results # <<>>
    /\ \E i \in DOMAIN raw :
          /\ raw[i].idx >= 0
          /\ raw[i].idx < Len(vs.chunks)
          /\ raw[i].score < retriever.threshold

\* the word-level Jaccard overlap of the texts of two results is above 0.7
NearDuplicates(a, b) ==
    LET A == Words(a.chunk.text)
        B == Words(b.chunk.text)
    IN  /\ A \cup B # {}
        /\ 10 * Cardinality(A \cap B) > 7 * Cardinality(A \cup B)

\* the rows of raw that name a chunk of the store
C11_InRangeRows == {i \in DOMAIN raw : raw[i].idx >= 0 /\ raw[i].idx < Len(vs.chunks)}

C12_SearchOutput ==
    [k \in 1..Cardinality(C11_InRangeRows) |->
        LET i == CHOOSE i \in C11_InRangeRows :
                    Cardinality({j \in C11_InRangeRows : j < i}) = k - 1
        IN  [chunk |-> vs.chunks[raw[i].idx + 1], score |-> raw[i].score]]

\* C12: the result of retrieve is a subsequence of the search output in the
\* same order, highest score first, and every above-threshold row it drops
\* is a near-duplicate of a kept row that precedes it.
C12_KeepsHigherScored ==
    (last.op = "retrieve" /\ last.ret = "list")
       => \E at \in [DOMAIN results -> DOMAIN C12_SearchOutput] :
             /\ \A i \in DOMAIN results : C12_SearchOutput[at[i]] = results[i]
             /\ \A i, j \in DOMAIN results : i < j => at[i] < at[j]
             /\ \A i, j \in DOMAIN results :
                   i < j => results[i].score >= results[j].score
             /\ \A k \in DOMAIN C12_SearchOutput :
                   (C12_SearchOutput[k].score >= retriever.threshold
                      /\ k \notin {at[i] : i \in DOMAIN results})
                   => \E i \in DOMAIN results :
                         /\ at[i] < k
                         /\ NearDuplicates(C12_SearchOutput[k], results[i])

\* retrieve dropped the lower-scored of two near-duplicates
C12_Witness ==
    /\ last.op = "retrieve"
    /\ last.ret = "list"
    /\ Len(results) >= 1
    /\ \E k \in DOMAIN C12_SearchOutput :
          /\ C12_SearchOutput[k].score >= retriever.threshold
          /\ C12_SearchOutput[k].score < results[1].score
          /\ \A i \in DOMAIN results : results[i] # C12_SearchOutput[k]

\* the position in job.pages of the page a chunk was cut from
C13_PageOf(c) ==
    CHOOSE p \in DOMAIN job.pages :
        job.pages[p].doc_name = c.doc_name /\ job.pages[p].page_num = c.page

\* C13: for pages of non-empty text, chunk_pages emits at least one chunk
\* per page, in page order, with chunk_id values strictly increasing in
\* emission order (hence unique), and every emitted chunk has non-empty text.
C13_ChunkCoverage ==
    (job.op = "chunk_pages" /\ job.done)
       => /\ \A p \in DOMAIN job.pages :
                \E i \in DOMAIN emitted :
                    /\ emitted[i].doc_name = job.pages[p].doc_name
                    /\ emitted[i].page = job.pages[p].page_num
          /\ \A i, j \in DOMAIN emitted :
                i < j => /\ emitted[i].chunk_id < emitted[j].chunk_id
                         /\ C13_PageOf(emitted[i]) <= C13_PageOf(emitted[j])
          /\ \A i \in DOMAIN emitted :
                emitted[i].text # <<>> /\ CharLen(emitted[i].text) > 0

\* two pages were chunked, one of them into more than one chunk of more
\* than one section
C13_Witness ==
    /\ job.op = "chunk_pages"
    /\ job.done
    /\ Len(job.pages) >= 2
    /\ \E i, j \in DOMAIN emitted :
          /\ i < j
          /\ emitted[i].page = emitted[j].page
          /\ emitted[i].doc_name = emitted[j].doc_name
          /\ emitted[i].section # emitted[j].section
    /\ \E i, j \in DOMAIN emitted :
          /\ i < j
          /\ emitted[i].page = emitted[j].page
          /\ emitted[i].doc_name = emitted[j].doc_name
          /\ emitted[i].section = emitted[j].section
          /\ emitted[i].heading_path = emitted[j].heading_path


\* the state of _sub_chunk_text at the end of its loop, for the call of job
C14_AtLoopEnd ==
    sub_chunk_loop(job.text, job.chunk_size, job.chunk_overlap,
                   job.min_chunk_size)

\* C14: _sub_chunk_text emits a chunk whose estimated token count is below
\* min_chunk_size only as the sole chunk of its section, and a trailing
\* fragment below the minimum is appended to the chunk emitted before it
\* whenever there is one.
C14_SmallChunkOnlyAlone ==
    (job.op = "sub_chunk_text" /\ job.done)
       => /\ \A i \in DOMAIN emitted :
                CharLen(emitted[i]) \div 4 < job.min_chunk_size
                   => Len(emitted) = 1
          /\ (/\ CharLen(job.text) \div 4 > job.chunk_size
              /\ C14_AtLoopEnd.chunks # <<>>
              /\ CharLen(Join(C14_AtLoopEnd.current_chunk)) \div 4
                    < job.min_chunk_size)
             => /\ Len(emitted) = Len(C14_AtLoopEnd.chunks)
                /\ \A i \in 1..(Len(emitted) - 1) :
                      emitted[i] = C14_AtLoopEnd.chunks[i]
                /\ emitted[Len(emitted)]
                      = C14_AtLoopEnd.chunks[Len(emitted)]
                           \o Join(C14_AtLoopEnd.current_chunk)

\* a trailing fragment below the minimum was appended to the chunk before it
C14_Witness ==
    /\ job.op = "sub_chunk_text"
    /\ job.done
    /\ CharLen(job.text) \div 4 > job.chunk_size
    /\ C14_AtLoopEnd.chunks # <<>>
    /\ CharLen(Join(C14_AtLoopEnd.current_chunk)) \div 4 < job.min_chunk_size
    /\ Len(emitted) >= 1

\* C15: citation_string starts with doc_name and ends with the page marker,
\* holds the clause marker if and only if clause_number is non-empty, and
\* holds the section in brackets when section is non-empty, else the quoted
\* heading_path when that is non-empty, else neither.
C15_CitationWellFormed ==
    (job.op = "citation_string" /\ job.done)
       => LET c == job.chunk
              has(mark) == \E i \in DOMAIN emitted : emitted[i].mark = mark
              holds(mark, body) ==
                  \E i \in DOMAIN emitted :
                      emitted[i].mark = mark /\ emitted[i].body = body
          IN  /\ Len(emitted) >= 2
              /\ emitted[1].mark = "" /\ emitted[1].body = c.doc_name
              /\ emitted[Len(emitted)].mark = "p."
              /\ emitted[Len(emitted)].body = c.page
              /\ has("§") <=> c.clause_number # ""
              /\ has("§") => holds("§", c.clause_number)
              /\ c.section # <<>> => holds("()", c.section)
              /\ (c.section = <<>> /\ c.heading_path # <<>>)
                    => (holds("\"\"", c.heading_path) /\ ~has("()"))
              /\ (c.section = <<>> /\ c.heading_path = <<>>)
                    => (~has("()") /\ ~has("\"\""))

\* a citation of a chunk with a heading path and neither clause nor section
C15_Witness ==
    /\ job.op = "citation_string"
    /\ job.done
    /\ job.chunk.clause_number = ""
    /\ job.chunk.section = <<>>
    /\ job.chunk.heading_path # <<>>
    /\ Len(emitted) = 3

\* the call of generate of job has returned
C16_Generated == job.op = "generate" /\ job.done

\* the best score of the results handed to generate is below 0.25
C17_AllBelow == \A i \in DOMAIN job.results : job.results[i].score < 25

\* C16: generate with an empty ranked-results sequence returns the fixed
\* apology and exactly 3 generic follow-up suggestions, whatever the
\* question.
C16_NoContextReply ==
    (C16_Generated /\ job.results = <<>>)
       => /\ emitted.answer.kind = "no_answer"
          /\ emitted.answer.header = ExplainNoContext
          /\ emitted.answer.hint = TryRephrasing
          /\ emitted.answer.related = <<>>
          /\ emitted.answer.sources = <<>>
          /\ emitted.answer.blocks = <<>>
          /\ Len(emitted.follow_ups) = 3
          /\ emitted.follow_ups[1].text
                = <<"What", "does", "this", "policy", "cover?">>
          /\ emitted.follow_ups[2].text
                = <<"What", "are", "the", "general", "exclusions?">>
          /\ emitted.follow_ups[3].text
                = <<"How", "do", "I", "make", "a", "claim?">>
          /\ \A i \in 1..3 : emitted.follow_ups[i].key = ""

\* generate returned for no results and a question that shares keywords
\* with the generic follow-ups
C16_Witness ==
    /\ C16_Generated
    /\ job.results = <<>>
    /\ job.question = GMany
    /\ Len(emitted.follow_ups) = 3

\* C17: generate with non-empty results whose best score is below 0.25
\* returns the no-answer apology, never a grounded answer; the apology lists
\* at most 3 related citations, those of the first three results, each
\* citation once, each with a snippet of at most 150 characters of its chunk.
C17_LowConfidenceReply ==
    (C16_Generated /\ job.results # <<>> /\ C17_AllBelow)
       => LET a == emitted.answer
              first == 1..(IF Len(job.results) < 3 THEN Len(job.results) ELSE 3)
          IN  /\ a.kind = "no_answer"
              /\ a.header = ExplainLowConfidence
              /\ a.blocks = <<>>
              /\ Len(a.related) <= 3
              /\ \A i \in first :
                    \E k \in DOMAIN a.related :
                        a.related[k].cite = citation_string(job.results[i].chunk)
              /\ \A k \in DOMAIN a.related :
                    \E i \in first :
                        /\ a.related[k].cite = citation_string(job.results[i].chunk)
                        /\ a.related[k].snippet.chars <= 150
                        /\ a.related[k].snippet.chars
                              <= CharLen(job.results[i].chunk.text)
                        /\ \A w \in DOMAIN a.related[k].snippet.words :
                              a.related[k].snippet.words[w]
                                 = clean_pdf_text(job.results[i].chunk.text)[w]
              /\ \A k, l \in DOMAIN a.related :
                    a.related[k].cite = a.related[l].cite => k = l

\* four results below 0.25, two of the first three with the same citation
\* and one with a text longer than 150 characters
C17_Witness ==
    /\ C16_Generated
    /\ C17_AllBelow
    /\ Len(job.results) = 4
    /\ Len(emitted.answer.related) = 2
    /\ Len(emitted.answer.sources) = 3
    /\ \E k \in DOMAIN emitted.answer.related :
          emitted.answer.related[k].snippet.dots

\* C18: for non-empty results whose best score is at least 0.25, generate
\* returns a grounded answer with at least one labeled passage block and
\* the citations line after it, or, when no group yields a passage, the
\* no-answer response; never the grounded header without a block.
C18_GroundedOrFallback ==
    (C16_Generated /\ job.results # <<>> /\ ~C17_AllBelow)
       => LET a == emitted.answer
              yields == \E i \in DOMAIN job.results :
                           extract_best_passage(
                               clean_pdf_text(job.results[i].chunk.text),
                               job.question) # <<>>
          IN  \/ /\ a.kind = "grounded"
                 /\ yields
                 /\ a.blocks # <<>>
                 /\ \A b \in DOMAIN a.blocks : a.blocks[b].text # <<>>
                 /\ a.sources # <<>>
              \/ /\ a.kind = "no_answer"
                 /\ ~yields
                 /\ a.blocks = <<>>
                 /\ a.header = ExplainNoPassage

\* a result at or above 0.25 that yields no passage
C18_Witness ==
    /\ C16_Generated
    /\ Len(job.results) = 1
    /\ ~C17_AllBelow
    /\ emitted.answer.kind = "no_answer"
    /\ emitted.answer.header = ExplainNoPassage

\* C19: for every question and every non-empty ranked-results sequence,
\* generate returns exactly 3 follow-up suggestions, the topic-template
\* suggestions before the generic ones.
C19_ThreeFollowUps ==
    (C16_Generated /\ job.results # <<>>)
       => /\ Len(emitted.follow_ups) = 3
          /\ \A i, j \in DOMAIN emitted.follow_ups :
                (i < j /\ emitted.follow_ups[j].key # "")
                   => emitted.follow_ups[i].key # ""

\* the markers of a no-answer reply, in lower case
NoAnswerMarkers ==
    {<<"cannot", "find">>, <<"no", "definitive", "answer">>,
     <<"not", "find">>, <<"i", "don't", "have">>}

\* the lower-case word w ends with m, over the words of the model
WordEndsWith(w, m) == w = m \/ (m = "not" /\ w = "cannot")

\* the lower-case word w starts with m, over the words of the model
WordStartsWith(w, m) ==
    \/ w = m
    \/ (m = "find" /\ w \in {"finding", "finds"})
    \/ (m = "answer" /\ w \in {"answers", "answer."})

\* marker in text.lower(): the marker's words one blank apart, the first
\* ending a word of the text and the last starting one
MarkerIn(marker, text) ==
    \E at \in 0..(Len(text) - Len(marker)) :
        \A i \in DOMAIN marker :
            IF i = 1 THEN WordEndsWith(Lower(text[at + i]), marker[i])
            ELSE IF i = Len(marker)
            THEN WordStartsWith(Lower(text[at + i]), marker[i])
            ELSE Lower(text[at + i]) = marker[i]

\* ask returned a reply for a question it retrieved nothing for
C20_OutOfScope ==
    /\ last.op = "ask"
    /\ last.ret = "dict"
    /\ job.retrieved
    /\ job.results = <<>>

\* C20: for every out-of-scope question (one for which retrieval yields no
\* chunk scoring at or above the threshold), the answer returned by ask
\* contains, compared in lower case, at least one of the no-answer markers
\* 'cannot find', 'no definitive answer', 'not find' or 'i don't have'.
C20_OutOfScopeMarker ==
    C20_OutOfScope => \E m \in NoAnswerMarkers : MarkerIn(m, emitted.answer)

\* what ask does return for such a question: the apology of generate for
\* no context, which says "couldn't find"
C20_CouldntFind ==
    C20_OutOfScope
       => /\ MarkerIn(<<"couldn't", "find">>, emitted.answer)
          /\ emitted.answer = ExplainNoContext \o <<NL, NL>> \o TryRephrasing
          /\ emitted.confidence = 0
          /\ emitted.sources = <<>>

\* C21: an unsupported answer-generation backend name is fatal at
\* construction: get_llm_backend fails for every name outside the recognised
\* set, and a pipeline configured with such a name fails before it builds or
\* saves any index and never reaches the initialized state.
C21_UnknownBackendFatal ==
    pl.llm_backend_name \notin Backends
       => /\ get_llm_backend(pl.llm_backend_name) = "ValueError"
          /\ ~pl.is_initialized
          /\ last.op = "initialize"
                => /\ last.ret # "None"
                   /\ last.wrote = {}
                   /\ vs.index.some => last.load = "True"

\* C22: the heavy model of a backend instance is loaded at most once:
\* repeated sequential calls load it only on the first call, and for any
\* interleaving of encode calls from concurrent request threads on the same
\* instance the load is not performed twice.
C22_LoadedAtMostOnce == backend.loads <= 1

\* what a retrieve for the query of thread t returns when it runs alone
C23_Alone(t) ==
    {retrieve(retriever, vs, h) :
        h \in Reported(vs, encode(<<threads[t].query>>, 1)[1],
                       retriever.top_k)}

\* C23: search and retrieve (with deduplication, build_context and
\* format_citations) leave the store's search structure, chunk list, every
\* chunk's fields and the is_loaded flag unchanged, so in any interleaving of
\* concurrent retrieve calls each call returns what it returns when run alone.
C23_ReadersUndisturbed ==
    [][/\ vs' = vs
       /\ \A t \in DOMAIN threads :
             (threads[t].pc # "idle" /\ threads'[t].pc = "idle")
                => \E alone \in C23_Alone(t) :
                      /\ threads'[t].returned.ret = alone.ret
                      /\ alone.ret = "list"
                            => /\ threads'[t].returned.results = alone.results
                               /\ threads'[t].returned.context
                                     = build_context(alone.results)
                               /\ threads'[t].returned.citations
                                     = format_citations(<<>>, alone.results)]_vars

\* two calls for different queries are inside retrieve at once, each holding
\* results, and one has returned results before
C23_Witness ==
    /\ threads[1].pc = "return"
    /\ threads[2].pc = "dedup"
    /\ threads[1].query # threads[2].query
    /\ threads[1].frame.deduped # <<>>
    /\ threads[2].frame.filtered # <<>>
    /\ threads[1].frame.deduped # threads[2].frame.filtered

\* the build of the store s has completed
C24_FullyBuilt(s) ==
    /\ s.index.some
    /\ s.is_loaded
    /\ s.chunks # <<>>
    /\ Len(s.index.vecs) = Len(s.chunks)

\* C24: while initialize(force_rebuild=True) runs on an already initialized
\* pipeline, the index being served is never mutated in place (the served
\* store changes only to a fully built one), and every ask or get_stats
\* that runs concurrently observes either the old fully built index or the
\* new fully built one, never a VectorStore whose build has not completed.
C24_RebuildWhileServing ==
    [][(Rebuilding /\ pl.is_initialized)
          => /\ served' # served => C24_FullyBuilt(served')
             /\ \A t \in DOMAIN threads :
                   (t # 1 /\ threads'[t] # threads[t])
                      => C24_FullyBuilt(threads'[t].seen.store)]_vars

\* the flushes of the loop of _sub_chunk_text run from the state st over
\* sentences: the chunk flushed, the chunks emitted before it, and whether
\* the flush emitted it
RECURSIVE C25_Flushes(_, _, _, _, _)
C25_Flushes(st, sentences, chunk_size, chunk_overlap, min_chunk_size) ==
    IF sentences = <<>> THEN <<>>
    ELSE LET after == sentence_loop(st, <<Head(sentences)>>, chunk_size,
                                    chunk_overlap, min_chunk_size)
             flush == /\ st.current_tokens + CharLen(Head(sentences)) \div 4
                            > chunk_size
                      /\ st.current_chunk # <<>>
         IN  (IF flush
              THEN <<[chunk_text |-> Join(st.current_chunk),
                      earlier |-> st.chunks,
                      kept |-> after.chunks # st.chunks]>>
              ELSE <<>>)
             \o C25_Flushes(after, Tail(sentences), chunk_size,
                            chunk_overlap, min_chunk_size)

\* the flushes of the call of job
C25_FlushesOfJob ==
    C25_Flushes([chunks |-> <<>>, current_chunk |-> <<>>,
                 current_tokens |-> 0],
                split_sentences(<<>>, <<>>, job.text),
                job.chunk_size, job.chunk_overlap, job.min_chunk_size)

\* C25: in sub-chunking a section longer than chunk_size, a chunk flushed
\* because the next sentence would exceed chunk_size is emitted if its token
\* estimate is at least min_chunk_size or if no chunk has been emitted yet
\* for that section; it is dropped only when it is below the minimum and an
\* earlier chunk exists.
C25_FlushedChunkKept ==
    (/\ job.op = "sub_chunk_text"
     /\ job.done
     /\ CharLen(job.text) \div 4 > job.chunk_size)
       => \A i \in DOMAIN C25_FlushesOfJob :
             LET f == C25_FlushesOfJob[i] IN
             /\ f.kept <=> (\/ CharLen(f.chunk_text) \div 4
                                  >= job.min_chunk_size
                            \/ f.earlier = <<>>)
             /\ f.kept => \E j \in DOMAIN emitted :
                             SubSeq(emitted[j], 1, Len(f.chunk_text))
                                = f.chunk_text

\* the words of sentence stand side by side in chunk
C26_Whole(sentence, chunk) ==
    \E at \in 0..(Len(chunk) - Len(sentence)) :
        \A i \in DOMAIN sentence : chunk[at + i] = sentence[i]

\* the sentences of the text of job
C26_Sentences == split_sentences(<<>>, <<>>, job.text)

\* C26: sub-chunking never discards content: for every section text and
\* every chunk_size, chunk_overlap and min_chunk_size, each sentence of the
\* section appears whole in at least one emitted chunk, and the emitted
\* chunks present the sentences in their original order.
C26_NoSentenceLost ==
    (job.op = "sub_chunk_text" /\ job.done)
       => \E at \in [DOMAIN C26_Sentences -> DOMAIN emitted] :
             /\ \A k \in DOMAIN C26_Sentences :
                   C26_Whole(C26_Sentences[k], emitted[at[k]])
             /\ \A k, l \in DOMAIN C26_Sentences : k < l => at[k] <= at[l]

\* the section the call of job processed, and the document it belongs to
C27_Section == split_into_sections(LastPage(job.pages).text)[job.upto]

C27_Doc == LastPage(job.pages).doc_name

\* the heading stacks before the call of job processed its section
C27_Before ==
    state_before_section(job.pages, job.upto, job.chunk_size,
                         job.chunk_overlap, job.min_chunk_size,
                         job.kw_order).heading_stack

\* C27: after chunk_pages processes a heading of nesting depth d (derived
\* from its clause number, 1 when it has none), that document's heading
\* stack has at most d entries, its last entry is the new heading and the
\* entries below it are an unchanged prefix of the previous stack; a section
\* without heading leaves the stack as the pages before left it, and the
\* stacks of other documents are unchanged.
C27_HeadingStack ==
    (job.op = "chunk_section" /\ job.done)
       => LET stack == emitted[C27_Doc]
              previous == C27_Before[C27_Doc]
          IN  /\ \A d \in DOMAIN C27_Before :
                    d # C27_Doc => emitted[d] = C27_Before[d]
              /\ C27_Section.heading = <<>> => stack = previous
              /\ C27_Section.heading # <<>>
                    => /\ Len(stack) <= Depth(C27_Section.clause)
                       /\ stack # <<>>
                       /\ stack[Len(stack)] = C27_Section.heading
                       /\ Len(stack) - 1 <= Len(previous)
                       /\ SubSeq(stack, 1, Len(stack) - 1)
                             = SubSeq(previous, 1, Len(stack) - 1)

\* a heading of depth 1 met on the second page of a document replaced a
\* stack of two headings left by its first page, next to the stack of
\* another document
C27_Witness ==
    /\ job.op = "chunk_section"
    /\ job.done
    /\ Len(job.pages) = 3
    /\ C27_Section.heading # <<>>
    /\ Depth(C27_Section.clause) = 1
    /\ Len(C27_Before[C27_Doc]) = 2
    /\ Len(emitted[C27_Doc]) = 1
    /\ \E d \in DOMAIN emitted : d # C27_Doc /\ emitted[d] # <<>>

\* C28: chunk_pages is a deterministic function of its input: two runs on
\* the same pages with the same parameters produce identical chunk
\* sequences, including the section label of a heading that holds more than
\* one of the domain keywords, whatever the order in which each run iterates
\* over the keyword set.
C28_Deterministic ==
    (job.op = "chunk_pages" /\ job.done)
       => \A o \in KeywordOrders :
             chunk_pages(job.pages, job.chunk_size, job.chunk_overlap,
                         job.min_chunk_size, o) = emitted

\* the answer the composer gives on its low-confidence branch for the
\* results of the last ask
C29_LowConfidenceAnswer ==
    answer_text(no_answer_response(job.results, ExplainLowConfidence))

\* C29: through PolicyQAPipeline.ask with the configured similarity
\* threshold of 0.25, the result list handed to the answer composer is
\* either empty or has every score at or above 0.25, so the composer's
\* low-confidence branch (non-empty results with best score below 0.25) is
\* never taken on that path, and the returned confidence is either 0.0 or
\* at least 0.25.
C29_NoLowConfidenceThroughAsk ==
    (job.op = "ask" /\ last.op = "ask" /\ last.ret = "dict")
       => /\ \A i \in DOMAIN job.results :
                job.results[i].score >= SIMILARITY_THRESHOLD
          /\ (job.retrieved /\ job.results # <<>>)
                => /\ \E i \in DOMAIN job.results :
                         job.results[i].score >= LOW_CONFIDENCE
                   /\ emitted.answer # C29_LowConfidenceAnswer
          /\ emitted.confidence = 0
                \/ emitted.confidence >= SIMILARITY_THRESHOLD

\* an ask whose search reported a hit below the threshold next to hits above
\* it, and whose composer was handed the latter
C29_Witness ==
    /\ job.op = "ask"
    /\ last.op = "ask"
    /\ last.ret = "dict"
    /\ job.retrieved
    /\ job.results # <<>>
    /\ \E i \in DOMAIN raw :
          raw[i].idx >= 0 /\ raw[i].score < SIMILARITY_THRESHOLD
    /\ emitted.confidence >= SIMILARITY_THRESHOLD

\* the embedding backend, vector store, retriever and answer backend of the
\* pipeline p are all set
C30_ComponentsSet(p) ==
    p.embedding_backend /\ p.vector_store /\ p.retriever /\ p.llm # "None"

\* C30: ask raises the 'Pipeline not initialized' error in every state in
\* which no initialize call has run to completion, including after an
\* initialize call that failed (no documents found, or unknown backend
\* name); is_initialized becomes true only in an initialize call that
\* returns, after the embedding backend, vector store, retriever and answer
\* backend have all been set, and once it is true no ask meets an unset
\* component.
C30_InitializedGuard ==
    [][/\ (pl'.is_initialized /\ ~pl.is_initialized)
             => last'.op = "initialize" /\ last'.ret = "None"
       /\ (last'.op = "initialize" /\ last'.ret # "None")
             => pl'.is_initialized = pl.is_initialized
       /\ pl'.is_initialized => C30_ComponentsSet(pl')
       /\ last'.op = "ask"
             => /\ pl' = pl
                /\ last'.ret = "RuntimeError" <=> ~pl.is_initialized
                /\ pl.is_initialized => C30_ComponentsSet(pl)]_vars

\* ask raised on a pipeline whose initialize failed on the backend name,
\* after the retriever was set
C30_Witness ==
    /\ last.op = "ask"
    /\ last.ret = "RuntimeError"
    /\ pl.retriever
    /\ pl.llm = "None"
    /\ ~pl.is_initialized

====
